---------------------------- MODULE Spec2Model ----------------------------
(***************************************************************************)
(* A model of the zila compiler pipeline (japi012/zila):                   *)
(*   lexer.rs      Lexer::word          source text  -> words              *)
(*   analyzer.rs   Analyzer::analyze    words        -> signature + items  *)
(*   compiler.rs   Compiler::compile    items        -> procs + strings    *)
(*   x86_64gen.rs  Generator::generate  procs        -> assembly, which is *)
(*                                      run on a model of the data stack   *)
(* Source text is a sequence of characters, each a string; a character     *)
(* takes ByteLen bytes of the UTF-8 text, and spans and slices are in      *)
(* bytes as they are in the source.                                        *)
(***************************************************************************)
EXTENDS Integers, Sequences, FiniteSets, TLC

VARIABLES
    source,          \* Lexer.source: the program text
    chars,           \* Lexer.chars: number of characters the iterator has yielded
    words,           \* the collected word list handed to Analyzer::analyze
    next,            \* Analyzer.words: number of words the Peekable iterator has yielded
    scopes,          \* the State of every check_word frame in progress (top level first)
    context,         \* the Context of the analyze call
    analysis,        \* the value analyze returned: Ok(signature, items) or Err(..)
    procs,           \* Compiler.procs
    string_literals, \* Compiler.string_literals
    asm,             \* the assembly Generator::generate wrote
    machine,         \* the running generated program: rcx, data stack, call stack
    panic,           \* the message of the panic that ended the compiler, or ""
    pc               \* the pipeline's position

vars == <<source, chars, words, next, scopes, context, analysis,
          procs, string_literals, asm, machine, panic, pc>>

-----------------------------------------------------------------------------
(* Bounds of the model.                                                    *)

\* longest program of the exhaustive family, in words
MaxWords == 3
\* longest text of the exhaustive character family, in characters
MaxChars == 4
\* longest body of a string literal of the literal family, in characters
MaxStrBody == 4
\* longest body of a quotation in the branch and apply families, in words
MaxBody == 2
\* most words in the two quotations of a program of the branch family together
MaxBranchBody == 4
\* deepest recursion of resolve_type / unify before the thread's stack is exhausted
MaxDepth == 12
\* longest program of the family `+ + ... +`, in words
MaxPlus == 5
\* number of literals pushed before the stack word in the stack-word family
MaxOperands == 3
\* longest program of the family of nested quotations, in words
MaxTreeWords == 6
\* longest body P of the family `X [ P ] apply`, in words
MaxInline == 4

-----------------------------------------------------------------------------
(* Generic helpers.                                                        *)

Min(a, b) == IF a < b THEN a ELSE b

Last(s) == s[Len(s)]

Front(s) == SubSeq(s, 1, Len(s) - 1)

RECURSIVE SeqsUpTo(_, _)
\* all sequences over S of length at most n
SeqsUpTo(S, n) ==
    IF n = 0 THEN {<<>>}
    ELSE LET shorter == SeqsUpTo(S, n - 1)
         IN  shorter \cup {Append(s, x) : s \in {t \in shorter : Len(t) = n - 1}, x \in S}

RECURSIVE Flatten(_)
Flatten(ss) == IF ss = <<>> THEN <<>> ELSE Head(ss) \o Flatten(Tail(ss))

-----------------------------------------------------------------------------
(* lexer.rs                                                                *)

Digits == {"0", "1", "2", "3", "4", "5", "6", "7", "8", "9"}

\* char::is_whitespace, on the model's alphabet
is_whitespace(c) == c \in {" ", "\n", "\t"}

is_ascii_digit(c) == c \in Digits

DigitValue(c) ==
    CASE c = "0" -> 0 [] c = "1" -> 1 [] c = "2" -> 2 [] c = "3" -> 3 [] c = "4" -> 4
      [] c = "5" -> 5 [] c = "6" -> 6 [] c = "7" -> 7 [] c = "8" -> 8 [] c = "9" -> 9

RECURSIVE parse(_)
\* the value str::parse::<isize> returns for a run of ASCII digits it accepts
parse(w) == IF w = <<>> THEN 0 ELSE 10 * parse(Front(w)) + DigitValue(Last(w))

\* isize::MAX, 2^63 - 1, in decimal
IsizeMax == <<"9", "2", "2", "3", "3", "7", "2", "0", "3", "6",
              "8", "5", "4", "7", "7", "5", "8", "0", "7">>

RECURSIVE StripZeros(_)
StripZeros(w) == IF w # <<>> /\ Head(w) = "0" THEN StripZeros(Tail(w)) ELSE w

RECURSIVE DigitsGreater(_, _)
\* a > b, for digit runs of equal length
DigitsGreater(a, b) ==
    IF a = <<>> THEN FALSE
    ELSE IF Head(a) # Head(b) THEN DigitValue(Head(a)) > DigitValue(Head(b))
    ELSE DigitsGreater(Tail(a), Tail(b))

\* str::parse::<isize> returns Err(PosOverflow): the value is above isize::MAX
PosOverflow(w) ==
    LET d == StripZeros(w)
    IN  Len(d) > Len(IsizeMax) \/ (Len(d) = Len(IsizeMax) /\ DigitsGreater(d, IsizeMax))

Span(start, end) == [start |-> start, end |-> end]

\* enum Token
TokenInteger(i) == [kind |-> "Integer", int |-> i]
TokenSymbol(s)  == [kind |-> "Symbol", text |-> s]
TokenString(s)  == [kind |-> "String", text |-> s]

Word(token, span) == [token |-> token, span |-> span]

\* the characters start+1 .. end of s
Slice(s, start, end) == SubSeq(s, start + 1, end)

\* a character outside ASCII: U+00E9, two bytes in UTF-8
EAcute == "U+00E9"

\* char::len_utf8
ByteLen(c) == IF c = EAcute THEN 2 ELSE 1

RECURSIVE Off(_, _)
\* the byte offset char_indices gives the character after the first p ones
Off(s, p) == IF p = 0 THEN 0 ELSE Off(s, p - 1) + ByteLen(s[p])

\* str::len
ByteLength(s) == Off(s, Len(s))

\* str::is_char_boundary
is_char_boundary(s, b) == \E p \in 0..Len(s) : Off(s, p) = b

\* &s[a..b] with byte offsets a, b: the characters in that byte range, or a
\* panic when an end of the range is not a character boundary of s
ByteSlice(s, a, b) ==
    IF a > b \/ ~is_char_boundary(s, a) \/ ~is_char_boundary(s, b)
    THEN [ok |-> FALSE, fail |-> "byte index is not a char boundary"]
    ELSE [ok |-> TRUE,
          text |-> Slice(s, CHOOSE p \in 0..Len(s) : Off(s, p) = a,
                            CHOOSE p \in 0..Len(s) : Off(s, p) = b)]

RECURSIVE FindFrom(_, _, _)
\* Iterator::find on the char iterator at position p: the offset of the first
\* character at or after p whose whitespace-ness is ws, or -1 (iterator exhausted)
FindFrom(src, p, ws) ==
    IF p >= Len(src) THEN -1
    ELSE IF is_whitespace(src[p + 1]) = ws THEN p
    ELSE FindFrom(src, p + 1, ws)

RECURSIVE ScanString(_, _, _, _)
\* the for loop of the '"' arm from the p-th character on: returns the final
\* end (one more for each character passed) and the iterator's position
ScanString(src, p, escaped, end) ==
    IF p >= Len(src) THEN [end |-> end, chars |-> p]
    ELSE LET c == src[p + 1]
         IN  IF escaped THEN ScanString(src, p + 1, FALSE, end + 1)
             ELSE IF c = "\\" THEN ScanString(src, p + 1, TRUE, end + 1)
             ELSE IF c = "\"" THEN [end |-> end, chars |-> p + 1]
             ELSE ScanString(src, p + 1, FALSE, end + 1)

\* Lexer::word with the iterator past p characters: None, Some(word) and the
\* iterator's new position, or a panic
LexerWord(src, p) ==
    LET first == FindFrom(src, p, FALSE)
        start == Off(src, first)
    IN  IF first = -1 THEN [ok |-> TRUE, some |-> FALSE, chars |-> Len(src)]
        ELSE IF src[first + 1] = "\""
        THEN LET scan == ScanString(src, first + 1, FALSE, start)
                 end  == Min(scan.end + 2, ByteLength(src))
                 text == ByteSlice(src, start, end)
             IN  IF ~text.ok THEN text
                 ELSE [ok |-> TRUE, some |-> TRUE, chars |-> scan.chars,
                       word |-> Word(TokenString(text.text), Span(start, end))]
        ELSE LET ws   == FindFrom(src, first + 1, TRUE)
                 end  == IF ws = -1 THEN ByteLength(src) ELSE Off(src, ws)
                 text == Slice(src, first, IF ws = -1 THEN Len(src) ELSE ws)
                 digits == \A i \in 1..Len(text) : is_ascii_digit(text[i])
             IN  IF digits /\ PosOverflow(text)
                 THEN [ok |-> FALSE, fail |-> "unwrap on Err(PosOverflow)"]
                 ELSE [ok |-> TRUE, some |-> TRUE,
                       chars |-> IF ws = -1 THEN Len(src) ELSE ws + 1,
                       word |-> Word(IF digits THEN TokenInteger(parse(text))
                                     ELSE TokenSymbol(text),
                                     Span(start, end))]

-----------------------------------------------------------------------------
(* analyzer.rs: types, signatures, items, Context                          *)

\* enum Type
TypeInt          == [tag |-> "Int"]
TypeBool         == [tag |-> "Bool"]
TypeString       == [tag |-> "String"]
TypeVar(n)       == [tag |-> "Var", n |-> n]
TypeMultiVar(n)  == [tag |-> "MultiVar", n |-> n]
TypeQuotation(s) == [tag |-> "Quotation", sig |-> s]

Signature(inputs, outputs) == [inputs |-> inputs, outputs |-> outputs]

\* enum ItemKind, struct Item
ItemInteger(i, span)          == [kind |-> "Integer", int |-> i, span |-> span]
ItemString(s, span)           == [kind |-> "String", text |-> s, span |-> span]
ItemWord(sig, name, span)     == [kind |-> "Word", sig |-> sig, name |-> name, span |-> span]
ItemQuotation(sig, its, span) == [kind |-> "Quotation", sig |-> sig, items |-> its, span |-> span]

\* Context::new.  rebound is not a field of the struct: it records the ids
\* whose entry an insert has replaced
NewContext ==
    [var_context |-> <<>>, multivar_context |-> <<>>, var_gen |-> 0, multivar_gen |-> 0,
     rebound |-> {}]

\* HashMap::insert: the entry for k is created or replaced
Insert(map, k, v) == [x \in (DOMAIN map) \cup {k} |-> IF x = k THEN v ELSE map[x]]

\* a set_var that stores no binding (a variant, for C8)
set_var_unbound(ctx, v, ty) == ctx

\* Context::set_var
set_var(ctx, v, ty) ==
    [ctx EXCEPT !.var_context = Insert(@, v, ty),
                !.rebound = IF v \in DOMAIN ctx.var_context
                            THEN @ \cup {TypeVar(v)} ELSE @]

\* Context::set_multivar
set_multivar(ctx, v, tys) ==
    [ctx EXCEPT !.multivar_context = Insert(@, v, tys),
                !.rebound = IF v \in DOMAIN ctx.multivar_context
                            THEN @ \cup {TypeMultiVar(v)} ELSE @]

\* State::new
NewState == [signature |-> Signature(<<>>, <<>>), items |-> <<>>]

\* outcomes of the fallible helpers
\* (a panic aborts the process; CannotExecSignature is the Err the unifier returns)
Panic(msg) == [ok |-> FALSE, fail |-> msg]
Overflow == Panic("stack overflow")
CannotExec == [ok |-> FALSE, fail |-> "CannotExecSignature"]

\* a result of a call that changes the Context in place: a failure carries the
\* Context as the call leaves it
Leaving(r, ctx) == IF r.ok THEN r ELSE [ok |-> FALSE, fail |-> r.fail, context |-> ctx]

\* the `?` operator, and the unwinding of a panic: a failure r is passed on to
\* the caller, a success continues with K
Then(r, K(_)) == IF r.ok THEN K(r) ELSE r

\* `let v = ..;` followed by K
Let(v, K(_)) == K(v)

-----------------------------------------------------------------------------
(* State::resolve_type, State::resolve_signature, State::resolve_all.      *)
(* d is the number of stack frames left: the recursion follows bindings    *)
(* without a visited set, so on a cyclic Context it ends by exhausting the *)
(* thread's stack.                                                         *)

RECURSIVE resolve_type(_, _, _)
RECURSIVE resolve_types(_, _, _)
RECURSIVE resolve_signature(_, _, _)

\* a resolve_type that follows a Var's binding one step only (a variant, for C10)
resolve_type_one_step(t, ctx, d) ==
    IF d = 0 THEN Overflow
    ELSE IF t.tag = "Var" THEN
        [ok |-> TRUE,
         stack |-> <<IF t.n \in DOMAIN ctx.var_context THEN ctx.var_context[t.n] ELSE t>>]
    ELSE IF t.tag = "MultiVar" THEN
        IF t.n \in DOMAIN ctx.multivar_context
        THEN resolve_types(ctx.multivar_context[t.n], ctx, d - 1)
        ELSE [ok |-> TRUE, stack |-> <<t>>]
    ELSE IF t.tag = "Quotation" THEN
        Then(resolve_signature(t.sig, ctx, d - 1),
             LAMBDA r : [ok |-> TRUE, stack |-> <<TypeQuotation(r.sig)>>])
    ELSE [ok |-> TRUE, stack |-> <<t>>]

\* resolve_type(t, stack, context) pushes onto stack; here the pushed types are returned
resolve_type(t, ctx, d) ==
    IF d = 0 THEN Overflow
    ELSE IF t.tag = "Var" THEN
        IF t.n \in DOMAIN ctx.var_context
        THEN Then(resolve_type(ctx.var_context[t.n], ctx, d - 1),
                  LAMBDA r : IF r.stack = <<>> THEN Panic("unwrap on None")
                             ELSE [ok |-> TRUE, stack |-> <<r.stack[1]>>])
        ELSE [ok |-> TRUE, stack |-> <<t>>]
    ELSE IF t.tag = "MultiVar" THEN
        IF t.n \in DOMAIN ctx.multivar_context
        THEN resolve_types(ctx.multivar_context[t.n], ctx, d - 1)
        ELSE [ok |-> TRUE, stack |-> <<t>>]
    ELSE IF t.tag = "Quotation" THEN
        Then(resolve_signature(t.sig, ctx, d - 1),
             LAMBDA r : [ok |-> TRUE, stack |-> <<TypeQuotation(r.sig)>>])
    ELSE [ok |-> TRUE, stack |-> <<t>>]

\* the for_each loops that resolve a list of types into one stack
resolve_types(ts, ctx, d) ==
    IF ts = <<>> THEN [ok |-> TRUE, stack |-> <<>>]
    ELSE Then(resolve_type(Head(ts), ctx, d), LAMBDA r :
         Then(resolve_types(Tail(ts), ctx, d), LAMBDA rest :
         [ok |-> TRUE, stack |-> r.stack \o rest.stack]))

resolve_signature(sig, ctx, d) ==
    Then(resolve_types(sig.inputs, ctx, d), LAMBDA ins :
    Then(resolve_types(sig.outputs, ctx, d), LAMBDA outs :
    [ok |-> TRUE, sig |-> Signature(ins.stack, outs.stack)]))

RECURSIVE resolve_item(_, _, _)
RECURSIVE resolve_items(_, _, _)

resolve_item(item, ctx, d) ==
    IF d = 0 THEN Overflow
    ELSE IF item.kind = "Quotation" THEN
        Then(resolve_items(item.items, ctx, d - 1), LAMBDA its :
        Then(resolve_signature(item.sig, ctx, d - 1), LAMBDA s :
        [ok |-> TRUE, item |-> ItemQuotation(s.sig, its.items, item.span)]))
    ELSE IF item.kind = "Word" THEN
        Then(resolve_signature(item.sig, ctx, d - 1), LAMBDA s :
        [ok |-> TRUE, item |-> ItemWord(s.sig, item.name, item.span)])
    ELSE [ok |-> TRUE, item |-> item]

resolve_items(items, ctx, d) ==
    IF items = <<>> THEN [ok |-> TRUE, items |-> <<>>]
    ELSE Then(resolve_item(Head(items), ctx, d), LAMBDA r :
         Then(resolve_items(Tail(items), ctx, d), LAMBDA rest :
         [ok |-> TRUE, items |-> <<r.item>> \o rest.items]))

\* State::resolve_all
resolve_all(state, ctx) ==
    Then(resolve_signature(state.signature, ctx, MaxDepth), LAMBDA s :
    Then(resolve_items(state.items, ctx, MaxDepth), LAMBDA its :
    [ok |-> TRUE, signature |-> s.sig, items |-> its.items]))

-----------------------------------------------------------------------------
(* State::instantiate.  One map, local_vars, serves Var and MultiVar ids   *)
(* alike: the MultiVar arm reads and writes local_vars, and the            *)
(* local_multivars argument is never used.                                 *)

RECURSIVE instantiate(_, _, _)

\* returns the rewritten stack, the local map and the Context (for its counters)
instantiate(stack, local_vars, ctx) ==
    IF stack = <<>> THEN [stack |-> <<>>, local_vars |-> local_vars, context |-> ctx]
    ELSE
      Let(Head(stack), LAMBDA t :
      Let(IF t.tag = "Var" THEN
              IF t.n \in DOMAIN local_vars
              THEN [t |-> TypeVar(local_vars[t.n]), local_vars |-> local_vars, context |-> ctx]
              ELSE [t |-> TypeVar(ctx.var_gen),
                    local_vars |-> Insert(local_vars, t.n, ctx.var_gen),
                    context |-> [ctx EXCEPT !.var_gen = @ + 1]]
          ELSE IF t.tag = "MultiVar" THEN
              IF t.n \in DOMAIN local_vars
              THEN [t |-> TypeMultiVar(local_vars[t.n]), local_vars |-> local_vars,
                    context |-> ctx]
              ELSE [t |-> TypeMultiVar(ctx.multivar_gen),
                    local_vars |-> Insert(local_vars, t.n, ctx.multivar_gen),
                    context |-> [ctx EXCEPT !.multivar_gen = @ + 1]]
          ELSE IF t.tag = "Quotation" THEN
              Let(instantiate(t.sig.inputs, local_vars, ctx), LAMBDA ins :
              Let(instantiate(t.sig.outputs, ins.local_vars, ins.context), LAMBDA outs :
              [t |-> TypeQuotation(Signature(ins.stack, outs.stack)),
               local_vars |-> outs.local_vars, context |-> outs.context]))
          ELSE [t |-> t, local_vars |-> local_vars, context |-> ctx],
          LAMBDA first :
      Let(instantiate(Tail(stack), first.local_vars, first.context), LAMBDA rest :
      [stack |-> <<first.t>> \o rest.stack,
       local_vars |-> rest.local_vars, context |-> rest.context])))

\* an instantiation that leaves the declared ids in place (a variant, for C15)
InstantiateSignature_declared_ids(sig, ctx) == [sig |-> sig, context |-> ctx]

\* the `if instantiate` block of try_signature: inputs first, then outputs
InstantiateSignature(sig, ctx) ==
    Let(instantiate(sig.inputs, <<>>, ctx), LAMBDA ins :
    Let(instantiate(sig.outputs, ins.local_vars, ins.context), LAMBDA outs :
    [sig |-> Signature(ins.stack, outs.stack), context |-> outs.context]))

-----------------------------------------------------------------------------
(* State::unify, State::unify_signature, State::unify_stack.               *)
(* Each returns Ok, CannotExec or a panic, with the Context it leaves.     *)

RECURSIVE unify(_, _, _, _)
RECURSIVE unify_zip(_, _, _, _)
RECURSIVE unify_stack(_, _, _, _)

unify(a, b, ctx, d) ==
    IF d = 0 THEN Leaving(Overflow, ctx)
    ELSE IF a.tag \in {"Bool", "Int", "String"} /\ b.tag = a.tag
    THEN [ok |-> TRUE, context |-> ctx]
    ELSE IF a.tag = "Var" THEN
        IF a.n \in DOMAIN ctx.var_context
        THEN unify(ctx.var_context[a.n], b, ctx, d - 1)
        ELSE IF b.tag = "Var" /\ b.n = a.n
        THEN [ok |-> TRUE, context |-> ctx]
        ELSE [ok |-> TRUE, context |-> set_var(ctx, a.n, b)]
    ELSE IF b.tag = "Var" THEN
        IF b.n \in DOMAIN ctx.var_context
        THEN unify(ctx.var_context[b.n], a, ctx, d - 1)
        ELSE [ok |-> TRUE, context |-> set_var(ctx, b.n, a)]
    ELSE IF a.tag = "Quotation" /\ b.tag = "Quotation"
    THEN \* unify_signature
         Then(unify_stack(a.sig.inputs, b.sig.inputs, ctx, d - 1), LAMBDA ins :
         unify_stack(a.sig.outputs, b.sig.outputs, ins.context, d - 1))
    ELSE Leaving(CannotExec, ctx)

\* for (a_t, b_t) in a.iter().zip(b) { self.unify(.., a_t, b_t, ..)?; }
unify_zip(a, b, ctx, d) ==
    IF a = <<>> \/ b = <<>> THEN [ok |-> TRUE, context |-> ctx]
    ELSE Then(unify(Head(a), Head(b), ctx, d), LAMBDA r :
         unify_zip(Tail(a), Tail(b), r.context, d))

unify_stack(a, b, ctx, d) ==
    IF d = 0 THEN Leaving(Overflow, ctx)
    ELSE IF b # <<>> /\ Last(b).tag = "MultiVar" THEN
        LET len == Len(b) - 1
        IN  IF Len(a) < len THEN Leaving(CannotExec, ctx)
            ELSE Then(unify_zip(SubSeq(a, 1, len), Front(b), ctx, d - 1), LAMBDA r :
                 [ok |-> TRUE,
                  context |-> set_multivar(r.context, Last(b).n,
                                           SubSeq(a, len + 1, Len(a)))])
    ELSE IF a # <<>> /\ Last(a).tag = "MultiVar" THEN
        LET len == Len(a) - 1
        IN  IF Len(b) < len THEN Leaving(CannotExec, ctx)
            ELSE Then(unify_zip(Front(a), SubSeq(b, 1, len), ctx, d - 1), LAMBDA r :
                 [ok |-> TRUE,
                  context |-> set_multivar(r.context, Last(a).n,
                                           SubSeq(b, len + 1, Len(b)))])
    ELSE IF Len(a) # Len(b) THEN Leaving(CannotExec, ctx)
    ELSE unify_zip(a, b, ctx, d - 1)

-----------------------------------------------------------------------------
(* Analyzer::register_builtins, Analyzer::try_signature.                   *)
(* Signatures are written as the source writes them: inputs are listed     *)
(* from the top of the stack downwards (the first input is matched with    *)
(* the element popped first), outputs from the bottom upwards.             *)

\* the word_bindings table after register_builtins
register_builtins ==
    (<<"+">> :> Signature(<<TypeInt, TypeInt>>, <<TypeInt>>))
 @@ (<<"-">> :> Signature(<<TypeInt, TypeInt>>, <<TypeInt>>))
 @@ (<<"*">> :> Signature(<<TypeInt, TypeInt>>, <<TypeInt>>))
 @@ (<<"/">> :> Signature(<<TypeInt, TypeInt>>, <<TypeInt>>))
 @@ (<<"e", "x", "i", "t">> :> Signature(<<TypeInt>>, <<>>))
 @@ (<<"p", "u", "t", "s">> :> Signature(<<TypeString>>, <<>>))
 @@ (<<"t", "r", "u", "e">> :> Signature(<<>>, <<TypeBool>>))
 @@ (<<"f", "a", "l", "s", "e">> :> Signature(<<>>, <<TypeBool>>))
 @@ (<<"d", "u", "p">> :> Signature(<<TypeVar(0)>>, <<TypeVar(0), TypeVar(0)>>))
 @@ (<<"s", "w", "a", "p">> :>
        Signature(<<TypeVar(1), TypeVar(0)>>, <<TypeVar(1), TypeVar(0)>>))
 @@ (<<"d", "r", "o", "p">> :> Signature(<<TypeVar(0)>>, <<>>))
 @@ (<<"o", "v", "e", "r">> :>
        Signature(<<TypeVar(1), TypeVar(0)>>, <<TypeVar(0), TypeVar(1), TypeVar(0)>>))
 @@ (<<"a", "p", "p", "l", "y">> :>
        Signature(<<TypeQuotation(Signature(<<TypeMultiVar(0)>>, <<TypeMultiVar(1)>>)),
                    TypeMultiVar(0)>>,
                  <<TypeMultiVar(1)>>))
 @@ (<<"?">> :> Signature(<<TypeVar(0), TypeVar(0), TypeBool>>, <<TypeVar(0)>>))

word_bindings == register_builtins

\* a push_input that forgets the demanded input (a variant, for C7)
push_input_forgotten(state, ty) == state

\* State::push_output, State::push_input, Vec::pop on the outputs
push_output(state, ty) == [state EXCEPT !.signature.outputs = Append(@, ty)]
push_input(state, ty)  == [state EXCEPT !.signature.inputs = Append(@, ty)]
pop_output(state)      == [state EXCEPT !.signature.outputs = Front(@)]

RECURSIVE try_signature(_, _, _, _, _, _)
RECURSIVE match_inputs(_, _, _, _, _, _, _)

\* the `for input in &sig.inputs` loop of try_signature; stack is the snapshot
\* taken on entry to this call and sig this call's signature
match_inputs(word, state, sig, stack, inputs, ctx, d) ==
    IF inputs = <<>> THEN [ok |-> TRUE, state |-> state, context |-> ctx]
    ELSE
      Let(Head(inputs), LAMBDA input :
      Then(IF input.tag = "MultiVar" THEN
               IF input.n \notin DOMAIN ctx.multivar_context
               THEN Leaving(Panic("not yet implemented: undefined multivar"), ctx)
               ELSE try_signature(word, state,
                                  Signature(ctx.multivar_context[input.n], <<>>),
                                  ctx, FALSE, d - 1)
           ELSE IF state.signature.outputs # <<>> THEN
               Let(unify(input, Last(state.signature.outputs), ctx, d - 1), LAMBDA u :
                   IF u.ok
                   THEN [ok |-> TRUE, state |-> pop_output(state), context |-> u.context]
                   ELSE IF u.fail = "CannotExecSignature"
                   THEN [ok |-> FALSE, fail |-> "CannotExecSignature",
                         word |-> word, stack |-> stack, sig |-> sig,
                         context |-> u.context]
                   ELSE u)
           ELSE [ok |-> TRUE, state |-> push_input(state, input), context |-> ctx],
           LAMBDA step :
      match_inputs(word, step.state, sig, stack, Tail(inputs), step.context, d)))

\* on success returns the state, the Context and sig as instantiated in place
try_signature(word, state, sig, ctx, inst, d) ==
    IF d = 0 THEN Leaving(Overflow, ctx)
    ELSE
      Let(IF inst THEN InstantiateSignature(sig, ctx) ELSE [sig |-> sig, context |-> ctx],
          LAMBDA i :
      Then(match_inputs(word, state, i.sig, state.signature.outputs, i.sig.inputs,
                        i.context, d), LAMBDA m :
      Then(Leaving(resolve_types(i.sig.outputs, m.context, d - 1), m.context),
           LAMBDA new_outputs :
      [ok |-> TRUE,
       state |-> [m.state EXCEPT !.signature.outputs = @ \o new_outputs.stack],
       context |-> m.context,
       sig |-> i.sig])))

-----------------------------------------------------------------------------
(* The pipeline as a state machine.                                        *)

NoWord == Word([kind |-> "None"], Span(0, 0))
None == [kind |-> "None"]
\* analysis, before analyze has returned
NotReturned == [ok |-> FALSE, fail |-> "not returned"]

\* a check_word frame: its State, and the `[` word it is the quotation of
Frame(state, word) == [state |-> state, word |-> word]

TopFrame == scopes[Len(scopes)]

\* words inside the brackets act on the State of the enclosing scope (a
\* variant, for C22)
WithTop_enclosing(st) ==
    [scopes EXCEPT ![IF Len(scopes) > 1 THEN Len(scopes) - 1 ELSE 1].state = st]

\* the frames with the innermost one's State replaced
WithTop(st) == [scopes EXCEPT ![Len(scopes)].state = st]

IsCloseBracket(w) == w.token.kind = "Symbol" /\ w.token.text = <<"]">>

\* Peekable::peek
peek == IF next < Len(words) THEN words[next + 1] ELSE NoWord

-----------------------------------------------------------------------------
(* compiler.rs                                                             *)

\* Type::size: Some(n) is n, None is 0
size(t) ==
    IF t.tag \in {"Var", "MultiVar"} THEN 0
    ELSE IF t.tag = "String" THEN 2
    ELSE 1

\* enum Instruction
PushInt(i)          == [op |-> "PushInt", int |-> i]
PushBool(b)         == [op |-> "PushBool", bool |-> b]
PushString(i)       == [op |-> "PushString", index |-> i]
PushQuote(label)    == [op |-> "PushQuote", label |-> label]
Plain(op)           == [op |-> op]
Sized(op, sz)       == [op |-> op, size |-> sz]
Sized2(op, sa, sb)  == [op |-> op, size_a |-> sa, size_b |-> sb]

Label(id) == [id |-> id, name |-> "None"]

\* Proc::new
Proc(label) == [label |-> label, code |-> <<>>]

RECURSIVE escape_from(_, _)
\* the loop of escape from character i on; is_escaped is set by the first
\* backslash and never cleared
escape_from(s, is_escaped) ==
    IF s = <<>> THEN <<>>
    ELSE LET c == Head(s)
         IN  IF is_escaped THEN
                 (IF c = "n" THEN <<"\n">>
                  ELSE IF c = "\\" THEN <<"\\">>
                  ELSE IF c = "\"" THEN <<"\"">>
                  ELSE <<>>) \o escape_from(Tail(s), TRUE)
             ELSE IF c = "\\" THEN escape_from(Tail(s), TRUE)
             ELSE <<c>> \o escape_from(Tail(s), FALSE)

escape(s) == escape_from(s, FALSE)

\* Compiler::add_instruction (labels and procs are numbered from 0)
add_instruction(comp, label, instruction, span) ==
    [comp EXCEPT !.procs[label.id + 1].code =
        Append(@, [span |-> span, instruction |-> instruction])]

\* new_proc numbering the new Proc as the last one it already has
new_proc_id_of_last(comp) ==
    [comp |-> [comp EXCEPT !.procs =
                 Append(@, Proc(Label(IF comp.procs = <<>> THEN 0 ELSE Len(comp.procs) - 1)))],
     label |-> Label(IF comp.procs = <<>> THEN 0 ELSE Len(comp.procs) - 1)]

\* Compiler::new_proc: the Compiler with the new Proc, and its label
new_proc(comp) ==
    [comp |-> [comp EXCEPT !.procs = Append(@, Proc(Label(Len(comp.procs))))],
     label |-> Label(Len(comp.procs))]

\* the instruction of a built-in word, or a panic: unwrap of the size of an
\* unresolved Var or MultiVar
WordInstruction(item) ==
    LET inputs == item.sig.inputs
        name == item.name
        unary(op) ==
            IF size(inputs[1]) = 0 THEN Panic("unwrap on None")
            ELSE [ok |-> TRUE, instruction |-> Sized(op, size(inputs[1]))]
        binary(op) ==
            IF size(inputs[1]) = 0 \/ size(inputs[2]) = 0 THEN Panic("unwrap on None")
            ELSE [ok |-> TRUE,
                  instruction |-> Sized2(op, size(inputs[1]), size(inputs[2]))]
        plain(op) == [ok |-> TRUE, instruction |-> Plain(op)]
    IN  CASE name = <<"t", "r", "u", "e">> -> [ok |-> TRUE, instruction |-> PushBool(TRUE)]
          [] name = <<"f", "a", "l", "s", "e">> ->
                [ok |-> TRUE, instruction |-> PushBool(FALSE)]
          [] name = <<"+">> -> plain("Add")
          [] name = <<"-">> -> plain("Sub")
          [] name = <<"*">> -> plain("Mul")
          [] name = <<"/">> -> plain("Div")
          [] name = <<"e", "x", "i", "t">> -> plain("Exit")
          [] name = <<"p", "u", "t", "s">> -> plain("Puts")
          [] name = <<"d", "u", "p">> -> unary("Dup")
          [] name = <<"d", "r", "o", "p">> -> unary("Drop")
          [] name = <<"s", "w", "a", "p">> -> binary("Swap")
          [] name = <<"o", "v", "e", "r">> -> binary("Over")
          [] name = <<"a", "p", "p", "l", "y">> -> plain("Apply")
          [] name = <<"?">> -> unary("Branch")
          [] OTHER -> Panic("not yet implemented: user defined words")

\* &s[1..s.len() - 2]: the raw literal without its first and its last two
\* bytes; a panic when the range is not one of s
StringBody(s) ==
    IF ByteLength(s) < 3 THEN Panic("slice index out of range")
    ELSE ByteSlice(s, 1, ByteLength(s) - 2)

RECURSIVE compile_item_to_block(_, _, _)
RECURSIVE compile_items(_, _, _)

\* Compiler::compile_item_to_block
compile_item_to_block(comp, item, label) ==
    IF item.kind = "Quotation" THEN
        LET q == new_proc(comp)
            r == compile_items(q.comp, item.items, q.label)
        IN  IF ~r.ok THEN r
            ELSE [ok |-> TRUE,
                  comp |-> add_instruction(r.comp, label, PushQuote(q.label), item.span)]
    ELSE IF item.kind = "Integer" THEN
        [ok |-> TRUE, comp |-> add_instruction(comp, label, PushInt(item.int), item.span)]
    ELSE IF item.kind = "String" THEN
        LET string_id == Len(comp.string_literals)
            body == StringBody(item.text)
        IN  IF ~body.ok THEN body
            ELSE [ok |-> TRUE,
                  comp |-> add_instruction(
                      [comp EXCEPT !.string_literals = Append(@, escape(body.text))],
                      label, PushString(string_id), item.span)]
    ELSE
        LET w == WordInstruction(item)
        IN  IF ~w.ok THEN w
            ELSE [ok |-> TRUE, comp |-> add_instruction(comp, label, w.instruction, item.span)]

\* the loops over items of compile and of the Quotation arm
compile_items(comp, items, label) ==
    IF items = <<>> THEN [ok |-> TRUE, comp |-> comp]
    ELSE LET r == compile_item_to_block(comp, Head(items), label)
         IN  IF ~r.ok THEN r ELSE compile_items(r.comp, Tail(items), label)

\* Compiler::compile
Compile(items) ==
    LET main == new_proc([procs |-> <<>>, string_literals |-> <<>>])
    IN  compile_items(main.comp, items, main.label)

-----------------------------------------------------------------------------
(* x86_64gen.rs: the assembly gen_instruction writes, as a list of         *)
(* operations.  [rcx + off] is a cell of the data stack, [rsp - k] a cell  *)
(* of the scratch area below the return stack.                             *)

\* values of registers and stack cells
IntV(n)  == [kind |-> "int", val |-> n]
StrV(i)  == [kind |-> "str", val |-> i]       \* the address of str_i
ProcV(i) == [kind |-> "proc", val |-> i]      \* the address of proc_i
TextV    == [kind |-> "text", val |-> 0]      \* an address inside .text
Junk     == [kind |-> "junk", val |-> 0]      \* contents the program never wrote

MovMemImm(off, v)    == [asm |-> "mov [rcx+off], imm", off |-> off, imm |-> v]
MovMemReg(off, r)    == [asm |-> "mov [rcx+off], reg", off |-> off, reg |-> r]
MovRegMem(r, off)    == [asm |-> "mov reg, [rcx+off]", off |-> off, reg |-> r]
MovRegImm(r, v)      == [asm |-> "mov reg, imm", reg |-> r, imm |-> v]
MovRegReg(r, r2)     == [asm |-> "mov reg, reg", reg |-> r, src |-> r2]
\* a save that always uses the first scratch cell (a variant, for C20)
MovRspReg_first_cell(k, r) == [asm |-> "mov [rsp-k], reg", off |-> 8, reg |-> r]
MovRspReg(k, r)      == [asm |-> "mov [rsp-k], reg", off |-> k, reg |-> r]
MovRegRsp(r, k)      == [asm |-> "mov reg, [rsp-k]", off |-> k, reg |-> r]
AddRcx(k)            == [asm |-> "add rcx, imm", imm |-> k]
SubRcx(k)            == [asm |-> "sub rcx, imm", imm |-> k]
ArithMemReg(o, off, r) == [asm |-> "arith [rcx+off], reg", arith |-> o, off |-> off, reg |-> r]
NotReg(r)            == [asm |-> "not reg", reg |-> r]
AndReg(r, r2)        == [asm |-> "and reg, reg", reg |-> r, src |-> r2]
OrReg(r, r2)         == [asm |-> "or reg, reg", reg |-> r, src |-> r2]
CallMem(off)         == [asm |-> "call [rcx+off]", off |-> off]
Syscall              == [asm |-> "syscall"]

\* Generator::emit_copy_up
emit_copy_up(offset, sz) ==
    Flatten([i \in 1..sz |->
               <<MovRegMem("rax", offset - 8 * (sz - (i - 1))),
                 MovMemReg((i - 1) * 8, "rax")>>])
      \o <<AddRcx(sz * 8)>>

\* Generator::emit_drop
emit_drop(sz) == <<SubRcx(sz * 8)>>

\* Generator::gen_instruction (the comment line is left out); lens[i + 1] is
\* string_literals[i].len()
gen_instruction(instruction, lens) ==
    LET op == instruction.op
    IN  CASE op = "PushInt" -> <<MovMemImm(0, IntV(instruction.int)), AddRcx(8)>>
          [] op = "PushBool" ->
                <<MovMemImm(0, IntV(IF instruction.bool THEN -1 ELSE 0)), AddRcx(8)>>
          [] op = "PushString" ->
                <<MovRegImm("rax", StrV(instruction.index)), MovMemReg(0, "rax"),
                  MovRegImm("rax", IntV(lens[instruction.index + 1])), MovMemReg(8, "rax"),
                  AddRcx(16)>>
          [] op = "PushQuote" ->
                <<MovMemImm(0, ProcV(instruction.label.id)), AddRcx(8)>>
          [] op = "Apply" -> <<SubRcx(8), CallMem(0)>>
          [] op = "Branch" ->
                LET sz == instruction.size
                    cond_off == -8 * (2 * sz + 1)
                    true_off_start == -8 * (sz + 1)
                    false_off_start == -8
                    result_off_start == cond_off
                IN  <<MovRegMem("rax", cond_off), MovRegReg("rbx", "rax"), NotReg("rbx")>>
                    \o Flatten([i \in 1..sz |->
                         <<MovRegMem("rdx", true_off_start - 8 * (i - 1)),
                           AndReg("rdx", "rax"),
                           MovRegMem("rsi", false_off_start - 8 * (i - 1)),
                           AndReg("rsi", "rbx"),
                           OrReg("rdx", "rsi"),
                           MovMemReg(result_off_start - 8 * (i - 1), "rdx")>>])
                    \o <<SubRcx(16 * sz)>>
          [] op = "Exit" ->
                <<MovRegImm("rax", IntV(60)), MovRegMem("rdi", -8), Syscall>>
          [] op = "Puts" ->
                <<MovRegImm("rdi", IntV(1)), MovRegMem("rsi", -16), MovRegMem("rdx", -8),
                  MovRegImm("rax", IntV(1)), Syscall, SubRcx(16)>>
          [] op = "Add" -> <<MovRegMem("rax", -8), ArithMemReg("add", -16, "rax"), SubRcx(8)>>
          [] op = "Sub" -> <<MovRegMem("rax", -8), ArithMemReg("sub", -16, "rax"), SubRcx(8)>>
          [] op = "Mul" -> <<MovRegMem("rax", -8), ArithMemReg("imul", -16, "rax"), SubRcx(8)>>
          [] op = "Dup" -> emit_copy_up(-(instruction.size * 8), instruction.size)
          [] op = "Over" ->
                emit_copy_up(-((instruction.size_a + instruction.size_b) * 8),
                             instruction.size_a)
          [] op = "Drop" -> emit_drop(instruction.size)
          [] op = "Swap" ->
                LET sa == instruction.size_a * 8
                    sb == instruction.size_b * 8
                IN  Flatten([i \in 1..instruction.size_a |->
                        <<MovRegMem("rax", -(8 * i)), MovRspReg(8 * i, "rax")>>])
                    \o Flatten([i \in 1..instruction.size_b |->
                        <<MovRegMem("rax", -(sa + 8 * i)), MovMemReg(-(8 * i), "rax")>>])
                    \o Flatten([i \in 1..instruction.size_a |->
                        <<MovRegRsp("rax", 8 * i), MovMemReg(-(sb + 8 * i), "rax")>>])

\* Generator::gen_proc for every proc: per proc, the operations of each of its
\* instructions; a panic (todo!()) when an instruction is Div
Generate(ps, literals) ==
    IF \E p \in 1..Len(ps) : \E i \in 1..Len(ps[p].code) :
            ps[p].code[i].instruction.op = "Div"
    THEN Panic("not yet implemented")
    ELSE [ok |-> TRUE,
          asm |-> [p \in 1..Len(ps) |->
                     [i \in 1..Len(ps[p].code) |->
                        gen_instruction(ps[p].code[i].instruction,
                                        [l \in 1..Len(literals) |-> ByteLength(literals[l])])]]]

-----------------------------------------------------------------------------
(* The generated program running.  rcx is a segment and a byte offset in   *)
(* it: "data" is the .bss block data_stack, struct_stack.                  *)

\* data_stack: resq 1024, struct_stack: resq 1024
StackCells == 1024
BssCells == 2048

\* _start: lea rcx, [rel data_stack]; call proc_0
StartMachine ==
    [rcx |-> [seg |-> "data", off |-> 0],
     mem |-> <<>>,
     scratch |-> <<>>,
     regs |-> [rax |-> Junk, rbx |-> Junk, rdx |-> Junk, rsi |-> Junk, rdi |-> Junk],
     frames |-> <<>>,
     proc |-> 0,
     ip |-> 1,
     status |-> "running",
     exit_code |-> Junk,
     out |-> <<>>]

\* the cell [rcx + off] addresses, or -1 when it is outside .bss
CellAt(m, off) ==
    IF m.rcx.seg = "data" /\ m.rcx.off + off >= 0 /\ (m.rcx.off + off) \div 8 < BssCells
    THEN (m.rcx.off + off) \div 8
    ELSE -1

\* an access next to .bss, below data_stack or above struct_stack: what lies
\* there depends on how the linker laid the sections out
Stray(m, off) == m.rcx.seg = "data" /\ CellAt(m, off) = -1

\* a read of .bss the program has not written is 0; a read outside it is Junk
\* (code bytes when rcx holds a code address), or a fault when the stray
\* address is not mapped
Load(m, off, mapped) ==
    LET c == CellAt(m, off)
    IN  IF c = -1 THEN [ok |-> ~Stray(m, off) \/ mapped, value |-> Junk]
        ELSE IF c \in DOMAIN m.mem THEN [ok |-> TRUE, value |-> m.mem[c]]
        ELSE [ok |-> TRUE, value |-> IntV(0)]

\* the machine after a fault
Fault(m) == [m EXCEPT !.status = "segfault"]

\* a write through an rcx that holds a code address faults; a stray write
\* faults or lands in memory this model does not follow
Store(m, off, v, mapped) ==
    LET c == CellAt(m, off)
    IN  IF c = -1 THEN (IF Stray(m, off) /\ mapped THEN m ELSE Fault(m))
        ELSE [m EXCEPT !.mem = Insert(@, c, v)]

NotV(v) == IF v.kind = "int" THEN IntV(-(v.val) - 1) ELSE Junk

\* and / or, for the operands the generated code gives them: one is a mask
AndV(a, b) ==
    IF b = IntV(-1) THEN a
    ELSE IF a = IntV(-1) THEN b
    ELSE IF a = IntV(0) \/ b = IntV(0) THEN IntV(0)
    ELSE Junk

OrV(a, b) ==
    IF b = IntV(0) THEN a
    ELSE IF a = IntV(0) THEN b
    ELSE IF a = IntV(-1) \/ b = IntV(-1) THEN IntV(-1)
    ELSE Junk

ArithV(o, a, b) ==
    IF a.kind = "int" /\ b.kind = "int"
    THEN IntV(CASE o = "add" -> a.val + b.val
                [] o = "sub" -> a.val - b.val
                [] o = "imul" -> a.val * b.val)
    ELSE Junk

\* one operation on the machine.  syscall: exit (rax = 60) ends the process;
\* write (rax = 1) appends to the output; the instruction leaves the address
\* of its successor in rcx
ExecOp(m, o, mapped) ==
    IF m.status # "running" THEN m
    ELSE CASE o.asm = "mov [rcx+off], imm" -> Store(m, o.off, o.imm, mapped)
           [] o.asm = "mov [rcx+off], reg" -> Store(m, o.off, m.regs[o.reg], mapped)
           [] o.asm = "mov reg, [rcx+off]" ->
                Let(Load(m, o.off, mapped), LAMBDA l :
                    IF l.ok THEN [m EXCEPT !.regs[o.reg] = l.value] ELSE Fault(m))
           [] o.asm = "mov reg, imm" -> [m EXCEPT !.regs[o.reg] = o.imm]
           [] o.asm = "mov reg, reg" -> [m EXCEPT !.regs[o.reg] = m.regs[o.src]]
           [] o.asm = "mov [rsp-k], reg" ->
                [m EXCEPT !.scratch = Insert(@, o.off, m.regs[o.reg])]
           [] o.asm = "mov reg, [rsp-k]" ->
                [m EXCEPT !.regs[o.reg] =
                    IF o.off \in DOMAIN m.scratch THEN m.scratch[o.off] ELSE Junk]
           [] o.asm = "add rcx, imm" -> [m EXCEPT !.rcx.off = @ + o.imm]
           [] o.asm = "sub rcx, imm" -> [m EXCEPT !.rcx.off = @ - o.imm]
           [] o.asm = "arith [rcx+off], reg" ->
                Let(Load(m, o.off, mapped), LAMBDA l :
                    IF l.ok
                    THEN Store(m, o.off, ArithV(o.arith, l.value, m.regs[o.reg]), mapped)
                    ELSE Fault(m))
           [] o.asm = "not reg" -> [m EXCEPT !.regs[o.reg] = NotV(@)]
           [] o.asm = "and reg, reg" -> [m EXCEPT !.regs[o.reg] = AndV(@, m.regs[o.src])]
           [] o.asm = "or reg, reg" -> [m EXCEPT !.regs[o.reg] = OrV(@, m.regs[o.src])]
           [] o.asm = "call [rcx+off]" ->
                Let(Load(m, o.off, mapped), LAMBDA l :
                    IF l.ok /\ l.value.kind = "proc"
                    THEN [m EXCEPT !.frames = Append(@, [proc |-> m.proc, ip |-> m.ip]),
                                   !.proc = l.value.val,
                                   !.ip = 0]
                    ELSE Fault(m))
           [] o.asm = "syscall" ->
                IF m.regs.rax = IntV(60)
                THEN [m EXCEPT !.status = "exit", !.exit_code = m.regs.rdi]
                ELSE [m EXCEPT !.out = Append(@, [ptr |-> m.regs.rsi, len |-> m.regs.rdx]),
                               !.regs.rax = m.regs.rdx,
                               !.rcx = [seg |-> "text", off |-> 0]]

RECURSIVE ExecOps(_, _, _)
ExecOps(m, ops, mapped) ==
    IF ops = <<>> THEN m ELSE ExecOps(ExecOp(m, Head(ops), mapped), Tail(ops), mapped)

-----------------------------------------------------------------------------
(* The programs the pipeline is run on.                                    *)

\* the spelling of each word of the families below
Spell(w) ==
    CASE w = "1" -> <<"1">>
      [] w = "2" -> <<"2">>
      [] w = "0" -> <<"0">>
      [] w = "a" -> <<"\"", "a", "\"">>
      [] w = "b" -> <<"\"", "b", "\"">>
      [] w = "[" -> <<"[">>
      [] w = "]" -> <<"]">>
      [] w = "+" -> <<"+">>
      [] w = "-" -> <<"-">>
      [] w = "*" -> <<"*">>
      [] w = "/" -> <<"/">>
      [] w = "?" -> <<"?">>
      [] w = "exit" -> <<"e", "x", "i", "t">>
      [] w = "puts" -> <<"p", "u", "t", "s">>
      [] w = "true" -> <<"t", "r", "u", "e">>
      [] w = "false" -> <<"f", "a", "l", "s", "e">>
      [] w = "dup" -> <<"d", "u", "p">>
      [] w = "swap" -> <<"s", "w", "a", "p">>
      [] w = "drop" -> <<"d", "r", "o", "p">>
      [] w = "over" -> <<"o", "v", "e", "r">>
      [] w = "apply" -> <<"a", "p", "p", "l", "y">>
      [] w = "hi" -> <<"\"", "h", "i", "\\", "n", "\"">>

RECURSIVE Text(_)
\* the words of ws separated by single spaces
Text(ws) ==
    IF ws = <<>> THEN <<>>
    ELSE IF Len(ws) = 1 THEN Spell(ws[1])
    ELSE Spell(ws[1]) \o <<" ">> \o Text(Tail(ws))

Builtins == {"+", "-", "*", "/", "exit", "puts", "true", "false",
             "dup", "drop", "swap", "over", "?", "apply"}

\* every program of at most MaxWords words over this vocabulary
Vocabulary == {"1", "a", "[", "]", "+", "puts", "true", "dup", "drop", "swap", "?", "apply"}
WordPrograms == {Text(ws) : ws \in SeqsUpTo(Vocabulary, MaxWords)}

\* every one-word program
OneWordPrograms == {Text(<<w>>) : w \in Builtins}

\* the scenarios of the specification, and programs of similar shape
Scenarios ==
    {Text(ws) : ws \in {
        <<"1", "1", "+">>,
        <<"hi", "puts", "0", "exit">>,
        <<"1", "2", "[", "+", "]", "apply">>,
        <<"true", "[", "1", "]", "[", "2", "]", "?">>,
        <<"dup", "swap", "drop">>,
        <<"+", "+">>,
        <<"+", "+", "+", "+">>,
        <<"[", "drop", "]", "dup", "apply">>,
        <<"[", "dup", "]", "drop">>,
        <<"1", "[", "dup", "]", "apply", "+", "exit">>,
        <<"a", "[", "1", "+", "]", "apply">>,
        <<"true", "a", "b", "?", "puts">>,
        <<"true", "1", "2", "?", "exit">>,
        <<"1", "a", "over", "drop", "puts", "drop">>,
        <<"a", "1", "swap", "puts", "drop">>,
        <<"[", "[", "1", "]", "apply", "]", "apply", "drop">>,
        <<"true", "a", "b", "?", "drop">>,
        <<"true", "1", "2", "?", "drop">>,
        <<"1", "a", "over", "drop", "drop", "drop">>,
        <<"a", "dup", "drop", "drop">>,
        <<"dup", "swap", "+">>,
        <<"[", "1">>,
        <<"[", "[", "a", "]">>,
        <<"[", "1", "]", "apply", "[", "2", "]", "apply", "+">>,
        <<"1", "true", "a", "b", "?", "drop", "exit">>,
        <<"1", "[", "dup", "+", "]", "dup", "apply", "swap", "apply">>,
        <<"1", "[", "+", "]">> }}

\* `true [ X ] [ Y ] ?` for every pair of quotation bodies of at most MaxBody words
\* each and MaxBranchBody words together
BodyVocabulary == {"1", "a", "drop", "dup", "+"}
Bodies == SeqsUpTo(BodyVocabulary, MaxBody)
BranchPrograms ==
    {Text(<<"true", "[">> \o p[1] \o <<"]", "[">> \o p[2] \o <<"]", "?">>) :
        p \in {q \in Bodies \X Bodies : Len(q[1]) + Len(q[2]) <= MaxBranchBody}}

\* `1 [ X ]` for every quotation body of at most MaxBody words, applied once,
\* as a copy of itself, or twice
ApplyPrograms ==
    {Text(<<"1", "[">> \o x \o <<"]">> \o t) :
        x \in Bodies,
        t \in {<<"apply">>, <<"dup", "apply">>, <<"dup", "apply", "apply">>,
                <<"dup", "apply", "swap", "apply">>}}

\* `+`, `+ +`, ... up to MaxPlus words
Pluses(k) == [i \in 1..k |-> "+"]
PlusPrograms == {Text(Pluses(k)) : k \in 1..MaxPlus}

\* MaxOperands literals, then one stack word
Operands == {"1", "2", "a", "true", "false"}
StackWords == {"dup", "drop", "swap", "over", "?"}
StackWordPrograms ==
    {Text(xs \o <<w>>) : xs \in [1..MaxOperands -> Operands], w \in StackWords}

\* every program of at most MaxTreeWords words that are brackets or the literal 1:
\* quotations beside and inside one another
TreeVocabulary == {"[", "]", "1"}
QuotationTrees == {Text(ws) : ws \in SeqsUpTo(TreeVocabulary, MaxTreeWords)}

RECURSIVE Nested(_, _)
\* the brackets of the word names ws match one another, from depth open
Nested(ws, open) ==
    IF ws = <<>> THEN open = 0
    ELSE IF Head(ws) = "[" THEN Nested(Tail(ws), open + 1)
    ELSE IF Head(ws) = "]" THEN open > 0 /\ Nested(Tail(ws), open - 1)
    ELSE Nested(Tail(ws), open)

\* `X [ P ] apply` for every bracket-balanced P of at most MaxInline words over
\* this vocabulary, after each of these X
InlineVocabulary == {"1", "+", "dup", "apply", "[", "]"}
InlinePrefixes == {<<>>, <<"1">>, <<"a">>, <<"[", "1", "]">>}
InlinePrograms ==
    {Text(x \o <<"[">> \o p \o <<"]", "apply">>) :
        x \in InlinePrefixes,
        p \in {q \in SeqsUpTo(InlineVocabulary, MaxInline) : Nested(q, 0)}}

\* the two shortest kinds of number above isize::MAX, and a number written
\* with MaxChars zeros before its digits
LongNumbers ==
    {[IsizeMax EXCEPT ![Len(IsizeMax)] = "8"], IsizeMax \o <<"0">>,
     [i \in 1..MaxChars |-> "0"] \o <<"1", "2">>}

\* every text of at most MaxChars characters over this alphabet
Alphabet == {"0", "1", "a", " ", "\"", "\\", EAcute}
CharTexts == SeqsUpTo(Alphabet, MaxChars)

\* every string literal whose body has at most MaxStrBody characters and no bare quote
StrAlphabet == {"a", " ", "\\", "n", "\""}
LiteralPrograms ==
    {<<"\"">> \o b \o <<"\"">> : b \in SeqsUpTo(StrAlphabet, MaxStrBody)}

Sources ==
    WordPrograms \cup OneWordPrograms \cup Scenarios \cup BranchPrograms
        \cup ApplyPrograms \cup PlusPrograms \cup StackWordPrograms \cup CharTexts \cup LiteralPrograms
        \cup LongNumbers \cup QuotationTrees \cup InlinePrograms

-----------------------------------------------------------------------------
(* Lexer: `Lexer::new(source).collect()`.                                  *)

Init ==
    /\ source \in Sources
    /\ chars = 0
    /\ words = <<>>
    /\ next = 0
    /\ scopes = <<>>
    /\ context = NewContext
    /\ analysis = NotReturned
    /\ panic = ""
    /\ procs = <<>>
    /\ string_literals = <<>>
    /\ asm = <<>>
    /\ machine = None
    /\ pc = "lex"

\* Iterator::next of the Lexer, called by collect until it returns None; then
\* Analyzer::analyze creates its State and Context
LexerNext ==
    /\ pc = "lex"
    /\ LET r == LexerWord(source, chars)
       IN  IF ~r.ok
           THEN /\ panic' = r.fail
                /\ pc' = "abort"
                /\ UNCHANGED <<chars, words, scopes>>
           ELSE /\ chars' = r.chars
                /\ words' = IF r.some THEN Append(words, r.word) ELSE words
                /\ pc' = IF r.some THEN "lex" ELSE "analyze"
                /\ scopes' = IF r.some THEN scopes ELSE <<Frame(NewState, NoWord)>>
                /\ panic' = panic
    /\ UNCHANGED <<source, next, context, analysis, procs, string_literals, asm, machine>>

-----------------------------------------------------------------------------
(* Analyzer::analyze and Analyzer::check_word.  The recursion of           *)
(* check_word on `[` is kept as the sequence scopes of frames in progress. *)

\* what one call of check_word does with the word it takes, up to the point
\* where it returns or, on `[`, enters the loop over the quotation's words
CheckWordStep(word) ==
    LET state == TopFrame.state
        token == word.token
    IN  IF token.kind = "Integer" THEN
            [ok |-> TRUE, context |-> context,
             scopes |-> WithTop([push_output(state, TypeInt) EXCEPT
                          !.items = Append(@, ItemInteger(token.int, word.span))])]
        ELSE IF token.kind = "String" THEN
            [ok |-> TRUE, context |-> context,
             scopes |-> WithTop([push_output(state, TypeString) EXCEPT
                          !.items = Append(@, ItemString(token.text, word.span))])]
        ELSE IF token.text = <<"[">> THEN
            [ok |-> TRUE, context |-> context,
             scopes |-> Append(scopes, Frame(NewState, word))]
        ELSE IF token.text \notin DOMAIN word_bindings THEN
            [ok |-> FALSE, fail |-> "UndefinedWord", word |-> word]
        ELSE
            LET r == try_signature(word, state, word_bindings[token.text],
                                   context, TRUE, MaxDepth)
            IN  IF ~r.ok THEN r
                ELSE [ok |-> TRUE, context |-> r.context,
                      scopes |-> WithTop([r.state EXCEPT
                                   !.items = Append(@, ItemWord(r.sig, token.text, word.span))])]

IsPanic(r) == ~r.ok /\ r.fail \notin {"UndefinedWord", "CannotExecSignature"}

\* enum CompileError: the Err that check_word returned with r
CompileError(r) ==
    IF r.fail = "UndefinedWord" THEN [ok |-> FALSE, fail |-> r.fail, word |-> r.word]
    ELSE [ok |-> FALSE, fail |-> r.fail, word |-> r.word, stack |-> r.stack, sig |-> r.sig]

\* one iteration of the while loop of analyze (top level) or of check_word's
\* `[` arm (inside a quotation): check_word takes the next word
check_word ==
    /\ pc = "analyze"
    /\ next < Len(words)
    /\ Len(scopes) > 1 => ~IsCloseBracket(peek)
    /\ LET r == CheckWordStep(peek)
       IN  /\ next' = next + 1
           /\ scopes' = IF r.ok THEN r.scopes ELSE scopes
           /\ context' = IF ~r.ok /\ r.fail = "UndefinedWord" THEN context ELSE r.context
           /\ analysis' = IF r.ok \/ IsPanic(r) THEN analysis ELSE CompileError(r)
           /\ panic' = IF IsPanic(r) THEN r.fail ELSE panic
           /\ pc' = IF r.ok THEN "analyze" ELSE IF IsPanic(r) THEN "abort" ELSE "error"
    /\ UNCHANGED <<source, chars, words, procs, string_literals, asm, machine>>

\* the `[` arm after its loop: the next word (a `]`, or nothing at the end of the
\* input) is taken, the quotation's State is resolved and its type pushed on the
\* enclosing State
close_quotation ==
    /\ pc = "analyze"
    /\ Len(scopes) > 1
    /\ next >= Len(words) \/ IsCloseBracket(peek)
    /\ LET frame == TopFrame
           outer == scopes[Len(scopes) - 1]
           r == resolve_all(frame.state, context)
       IN  /\ next' = Min(next + 1, Len(words))
           /\ scopes' =
                IF ~r.ok THEN scopes
                ELSE [i \in 1..(Len(scopes) - 1) |->
                        IF i < Len(scopes) - 1 THEN scopes[i]
                        ELSE [outer EXCEPT !.state =
                               [push_output(outer.state, TypeQuotation(r.signature)) EXCEPT
                                  !.items = Append(@, ItemQuotation(r.signature, r.items,
                                                                    frame.word.span))]]]
           /\ panic' = IF r.ok THEN panic ELSE r.fail
           /\ pc' = IF r.ok THEN "analyze" ELSE "abort"
    /\ UNCHANGED <<source, chars, words, context, analysis, procs, string_literals, asm,
                   machine>>

\* analyze after its loop: resolve_all of the top-level State, then Ok
analyze_return ==
    /\ pc = "analyze"
    /\ Len(scopes) = 1
    /\ next >= Len(words)
    /\ LET r == resolve_all(TopFrame.state, context)
       IN  /\ analysis' = IF r.ok THEN r ELSE analysis
           /\ panic' = IF r.ok THEN panic ELSE r.fail
           /\ pc' = IF r.ok THEN "compile" ELSE "abort"
    /\ UNCHANGED <<source, chars, words, next, scopes, context, procs, string_literals,
                   asm, machine>>

\* Compiler::compile on the items analyze returned
compile ==
    /\ pc = "compile"
    /\ LET r == Compile(analysis.items)
       IN  /\ procs' = IF r.ok THEN r.comp.procs ELSE procs
           /\ string_literals' = IF r.ok THEN r.comp.string_literals ELSE string_literals
           /\ panic' = IF r.ok THEN panic ELSE r.fail
           /\ pc' = IF r.ok THEN "generate" ELSE "abort"
    /\ UNCHANGED <<source, chars, words, next, scopes, context, analysis, asm, machine>>

-----------------------------------------------------------------------------
(* Generator::generate, then the program assembled, linked and run.        *)

generate ==
    /\ pc = "generate"
    /\ LET r == Generate(procs, string_literals)
       IN  /\ asm' = IF r.ok THEN r.asm ELSE asm
           /\ panic' = IF r.ok THEN panic ELSE r.fail
           /\ pc' = IF r.ok THEN "assemble" ELSE "abort"
    /\ UNCHANGED <<source, chars, words, next, scopes, context, analysis, procs,
                   string_literals, machine>>

\* nasm has no encoding for `imul [mem], reg`
Assembles == \A p \in 1..Len(asm) : \A i \in 1..Len(asm[p]) : \A k \in 1..Len(asm[p][i]) :
                asm[p][i][k].asm = "arith [rcx+off], reg" => asm[p][i][k].arith # "imul"

\* nasm and ld, then the process started: _start up to `call proc_0`
start ==
    /\ pc = "assemble"
    /\ pc' = IF Assembles THEN "run" ELSE "failed"
    /\ machine' = IF Assembles THEN StartMachine ELSE machine
    /\ UNCHANGED <<source, chars, words, next, scopes, context, analysis, procs,
                   string_literals, asm, panic>>

\* the instruction the running proc is at: its place in procs, or None at `ret`
CurrentCode ==
    IF machine.ip <= Len(procs[machine.proc + 1].code)
    THEN procs[machine.proc + 1].code[machine.ip]
    ELSE [span |-> Span(0, 0), instruction |-> Plain("ret")]

\* the code of one instruction runs
exec_instruction ==
    /\ pc = "run"
    /\ machine.ip <= Len(asm[machine.proc + 1])
    /\ \E mapped \in BOOLEAN :
         LET m == ExecOps(machine, asm[machine.proc + 1][machine.ip], mapped)
         IN  /\ machine' = IF m.status = "running" THEN [m EXCEPT !.ip = @ + 1] ELSE m
             /\ pc' = CASE m.status = "running" -> "run"
                        [] m.status = "exit" -> "exited"
                        [] m.status = "segfault" -> "crashed"
    /\ UNCHANGED <<source, chars, words, next, scopes, context, analysis, procs,
                   string_literals, asm, panic>>

\* `ret` at the end of a proc: back to the caller, or from proc_0 to _start,
\* which exits with status 0
ret ==
    /\ pc = "run"
    /\ machine.ip > Len(asm[machine.proc + 1])
    /\ IF machine.frames = <<>>
       THEN /\ machine' = [machine EXCEPT !.status = "exit", !.exit_code = IntV(0)]
            /\ pc' = "returned"
       ELSE /\ machine' = [machine EXCEPT !.frames = Front(@),
                                          !.proc = Last(machine.frames).proc,
                                          !.ip = Last(machine.frames).ip + 1]
            /\ pc' = "run"
    /\ UNCHANGED <<source, chars, words, next, scopes, context, analysis, procs,
                   string_literals, asm, panic>>

Next ==
    \/ LexerNext
    \/ check_word
    \/ close_quotation
    \/ analyze_return
    \/ compile
    \/ generate
    \/ start
    \/ exec_instruction
    \/ ret

Spec == Init /\ [][Next]_vars

-----------------------------------------------------------------------------
(* Properties of the pipeline.                                             *)

\* the pipeline is past a successful return of analyze
Analyzed == analysis.ok

IsSymbol(w, text) == w.token.kind = "Symbol" /\ w.token.text = text

RECURSIVE OpenBrackets(_, _)
\* the number of `[` of ws still open after its last word, starting from depth
\* open; a `]` at depth 0 closes nothing
OpenBrackets(ws, open) ==
    IF ws = <<>> THEN open
    ELSE IF IsSymbol(Head(ws), <<"[">>) THEN OpenBrackets(Tail(ws), open + 1)
    ELSE IF IsSymbol(Head(ws), <<"]">>) /\ open > 0 THEN OpenBrackets(Tail(ws), open - 1)
    ELSE OpenBrackets(Tail(ws), open)

\* C1: bracket balance.  A word list in which some `[` has no matching `]` is
\* never analysed successfully: whenever analyze has returned Ok, every `[`
\* of the input is closed by a `]`.
C1_UnclosedBracketIsAnError ==
    Analyzed => OpenBrackets(words, 0) = 0

-----------------------------------------------------------------------------

\* the variables of a type list in order of first occurrence, as <<tag, n>> pairs
RECURSIVE VarsInOrder(_, _)
VarsInOrder(tys, seen) ==
    IF tys = <<>> THEN seen
    ELSE LET t == Head(tys)
             here == IF t.tag \in {"Var", "MultiVar"}
                     THEN IF \E i \in 1..Len(seen) : seen[i] = <<t.tag, t.n>>
                          THEN seen ELSE Append(seen, <<t.tag, t.n>>)
                     ELSE IF t.tag = "Quotation"
                     THEN VarsInOrder(t.sig.inputs \o t.sig.outputs, seen)
                     ELSE seen
         IN  VarsInOrder(Tail(tys), here)

RECURSIVE RenameType(_, _)
\* t with every variable replaced by its position in order
RenameType(t, order) ==
    IF t.tag \in {"Var", "MultiVar"}
    THEN [t EXCEPT !.n = CHOOSE i \in 1..Len(order) : order[i] = <<t.tag, t.n>>]
    ELSE IF t.tag = "Quotation"
    THEN TypeQuotation(Signature(
            [i \in 1..Len(t.sig.inputs) |-> RenameType(t.sig.inputs[i], order)],
            [i \in 1..Len(t.sig.outputs) |-> RenameType(t.sig.outputs[i], order)]))
    ELSE t

\* a signature with its variables numbered in order of first occurrence: two
\* signatures are equal up to renaming of variables iff their canonical forms are equal
Canonical(sig) ==
    LET order == VarsInOrder(sig.inputs \o sig.outputs, <<>>)
    IN  RenameType(TypeQuotation(sig), order).sig

\* C2: one-word programs.  For each built-in word w, the program consisting of
\* the single word w is analysed successfully and its top-level signature is,
\* up to renaming of variables, the signature register_builtins declares for w
\* (for `apply`: R ([R -> S]) -> S).
C2_OneWordProgramHasDeclaredSignature ==
    \A w \in Builtins :
        (source = Text(<<w>>) /\ pc \notin {"lex", "analyze"}) =>
            /\ Analyzed
            /\ Canonical(analysis.signature) = Canonical(word_bindings[Spell(w)])

-----------------------------------------------------------------------------

RECURSIVE Mentioned(_)
\* the variables occurring in the types tys, as <<tag, n>> pairs
Mentioned(tys) ==
    IF tys = <<>> THEN {}
    ELSE LET t == Head(tys)
         IN  (IF t.tag \in {"Var", "MultiVar"} THEN {<<t.tag, t.n>>}
              ELSE IF t.tag = "Quotation" THEN Mentioned(t.sig.inputs \o t.sig.outputs)
              ELSE {})
             \cup Mentioned(Tail(tys))

\* the variables a Context binds
Bound(ctx) ==
    {<<"Var", n>> : n \in DOMAIN ctx.var_context}
        \cup {<<"MultiVar", n>> : n \in DOMAIN ctx.multivar_context}

\* the variables occurring in the binding of v
BindingMentions(ctx, v) ==
    IF v \notin Bound(ctx) THEN {}
    ELSE IF v[1] = "Var" THEN Mentioned(<<ctx.var_context[v[2]]>>)
    ELSE Mentioned(ctx.multivar_context[v[2]])

RECURSIVE Reachable(_, _)
\* the variables reachable from the set vs by following bindings
Reachable(ctx, vs) ==
    LET more == vs \cup UNION {BindingMentions(ctx, v) : v \in vs}
    IN  IF more = vs THEN vs ELSE Reachable(ctx, more)

\* some bound variable occurs, directly or through other bindings, in its own binding
Cyclic(ctx) ==
    \E v \in Bound(ctx) : v \in Reachable(ctx, BindingMentions(ctx, v))

\* C3: occurs check (I1).  The Context never holds a cyclic binding: no
\* variable is bound to a type that mentions it, directly or through other
\* bindings, because unify refuses to bind Var(v) to a type mentioning v.
C3_NoCyclicBindingIsStored ==
    ~Cyclic(context)

-----------------------------------------------------------------------------

\* the compiler is past a successful Compiler::compile
Compiled == pc \in {"generate", "assemble", "run", "returned", "exited", "crashed", "failed"}

\* C4: unknown slot sizes.  Lowering fails on a slot of unknown size only when
\* the program is polymorphic at the top level: it never fails for that reason
\* on a program whose top-level signature mentions no variable (e.g. () -> ()),
\* also when the program contains quotations that are never applied.
C4_GroundProgramLowers ==
    (Analyzed /\ pc = "abort" /\ panic = "unwrap on None") =>
        Mentioned(analysis.signature.inputs \o analysis.signature.outputs) # {}

-----------------------------------------------------------------------------

RECURSIVE TrailingBackslashes(_)
\* the number of backslashes s ends with
TrailingBackslashes(s) ==
    IF s = <<>> \/ s[Len(s)] # "\\" THEN 0
    ELSE 1 + TrailingBackslashes(SubSeq(s, 1, Len(s) - 1))

\* raw is a complete literal: it ends with a closing quote that is not escaped
IsTerminated(raw) ==
    /\ Len(raw) >= 2
    /\ raw[Len(raw)] = "\""
    /\ TrailingBackslashes(SubSeq(raw, 2, Len(raw) - 1)) % 2 = 0

\* the text between the opening and the closing quote
BetweenQuotes(raw) == SubSeq(raw, 2, Len(raw) - 1)

RECURSIVE Unescaped(_)
\* escape processing: a backslash and the character after it stand for a
\* newline (n), a backslash or a quote; any other escape is dropped
Unescaped(s) ==
    IF s = <<>> THEN <<>>
    ELSE IF Head(s) # "\\" THEN <<Head(s)>> \o Unescaped(Tail(s))
    ELSE IF Len(s) = 1 THEN <<>>
    ELSE (CASE s[2] = "n" -> <<"\n">>
            [] s[2] = "\\" -> <<"\\">>
            [] s[2] = "\"" -> <<"\"">>
            [] OTHER -> <<>>) \o Unescaped(Tail(Tail(s)))

\* C5: string pool.  Every PushString lowered from a complete string literal
\* carries the index of a pool entry that is exactly the text between the
\* literal's quotes after escape processing (for "hi\n": h, i, newline).
C5_PoolEntryIsTheLiteralBody ==
    Compiled =>
        \A p \in 1..Len(procs) : \A i \in 1..Len(procs[p].code) :
            LET code == procs[p].code[i]
                raw == ByteSlice(source, code.span.start, code.span.end).text
            IN  (code.instruction.op = "PushString" /\ IsTerminated(raw)) =>
                    /\ code.instruction.index + 1 \in 1..Len(string_literals)
                    /\ string_literals[code.instruction.index + 1]
                         = Unescaped(BetweenQuotes(raw))

-----------------------------------------------------------------------------

\* lea rcx, [rel data_stack]
StackBase == [seg |-> "data", off |-> 0]

\* C6: stack neutrality.  For a closed program with signature () -> (), rcx is
\* the data-stack base again when proc_0 has returned to _start.
C6_ClosedProgramRestoresRcx ==
    (pc = "returned" /\ analysis.signature = Signature(<<>>, <<>>)) =>
        machine.rcx = StackBase

-----------------------------------------------------------------------------

\* the State of the innermost check_word frame, before and after a step
Current == TopFrame.state
After == scopes'[Len(scopes)].state

\* check_word takes a built-in word and accepts it
AcceptsBuiltin ==
    /\ pc = "analyze" /\ pc' = "analyze" /\ next' = next + 1
    /\ peek.token.kind = "Symbol"
    /\ peek.token.text \in DOMAIN word_bindings

RECURSIVE Expanded(_, _)
\* the expected inputs, a row variable replaced by the row ctx binds it to
Expanded(inputs, ctx) ==
    IF inputs = <<>> THEN <<>>
    ELSE (IF Head(inputs).tag = "MultiVar" /\ Head(inputs).n \in DOMAIN ctx.multivar_context
          THEN ctx.multivar_context[Head(inputs).n]
          ELSE <<Head(inputs)>>) \o Expanded(Tail(inputs), ctx)

\* what the type t resolves to through ctx; nothing when the resolution does not end
Resolved(t, ctx) ==
    LET r == resolve_type(t, ctx, MaxDepth)
    IN  IF r.ok THEN r.stack ELSE <<>>

\* each expected input takes the popped top of the outputs while there is
\* one, and is otherwise appended to the inputs, the outputs left alone; the
\* popped type and the expected one are unified: they resolve to the same type
InputsPoppedOrDemanded ==
    LET sig == InstantiateSignature(word_bindings[peek.token.text], context).sig
        expected == Expanded(sig.inputs, context')
        produced == resolve_types(sig.outputs, context', MaxDepth).stack
        outs == Current.signature.outputs
        k == Len(expected)
        n == Len(outs)
        p == Min(k, n)
    IN  /\ After.signature.inputs = Current.signature.inputs \o SubSeq(expected, p + 1, k)
        /\ After.signature.outputs = SubSeq(outs, 1, n - p) \o produced
        /\ \A i \in 1..p :
               /\ Resolved(expected[i], context') = Resolved(outs[n + 1 - i], context')
               /\ ~Cyclic(context') => Resolved(expected[i], context') # <<>>

Ints(k) == [i \in 1..k |-> TypeInt]

\* the program of k words `+` has the signature Int^(k+1) -> Int
PlusesDemandInts ==
    \A k \in 1..MaxPlus :
        (Analyzed /\ source = Text(Pluses(k))) =>
            analysis.signature = Signature(Ints(k + 1), <<TypeInt>>)

-----------------------------------------------------------------------------

RECURSIVE GroundTypes(_)
\* the types without variables that occur in tys, at any depth
GroundTypes(tys) ==
    IF tys = <<>> THEN {}
    ELSE LET t == Head(tys)
         IN  (IF Mentioned(<<t>>) = {} THEN {t} ELSE {})
             \cup (IF t.tag = "Quotation"
                   THEN GroundTypes(t.sig.inputs \o t.sig.outputs) ELSE {})
             \cup GroundTypes(Tail(tys))

RECURSIVE Substituted(_, _)
\* t with every Var replaced by its image under the substitution
Substituted(t, subst) ==
    IF t.tag = "Var" THEN subst[t.n]
    ELSE IF t.tag = "Quotation"
    THEN TypeQuotation(Signature(
            [i \in 1..Len(t.sig.inputs) |-> Substituted(t.sig.inputs[i], subst)],
            [i \in 1..Len(t.sig.outputs) |-> Substituted(t.sig.outputs[i], subst)]))
    ELSE t

\* the signatures a and b unify: some substitution of their variables makes
\* them equal (it is enough to try the types without variables that occur in
\* them, and Int for a variable nothing constrains)
Unifiable(a, b) ==
    LET all == a.inputs \o a.outputs \o b.inputs \o b.outputs
        ids == {v[2] : v \in Mentioned(all)}
        images == GroundTypes(all) \cup {TypeInt}
    IN  \E subst \in [ids -> images] :
            Substituted(TypeQuotation(a), subst) = Substituted(TypeQuotation(b), subst)

\* the three topmost outputs, as they resolve
Condition == Resolved(Current.signature.outputs[Len(Current.signature.outputs) - 2], context)
FirstBranch == Resolved(Current.signature.outputs[Len(Current.signature.outputs) - 1], context)
SecondBranch == Resolved(Current.signature.outputs[Len(Current.signature.outputs)], context)

\* check_word takes `?` with a Bool and two quotations on top of the outputs
BranchesOnQuotations ==
    /\ pc = "analyze" /\ next' = next + 1
    /\ IsSymbol(peek, <<"?">>)
    /\ Len(Current.signature.outputs) >= 3
    /\ Condition = <<TypeBool>>
    /\ Len(FirstBranch) = 1 /\ FirstBranch[1].tag = "Quotation"
    /\ Len(SecondBranch) = 1 /\ SecondBranch[1].tag = "Quotation"
    /\ \A v \in Mentioned(FirstBranch \o SecondBranch) : v[1] = "Var"

\* C8: branch agreement.  `?` applied to a Bool and two quotations succeeds
\* exactly when the signatures of the two quotations unify; its result is then
\* the unified quotation type, in place of the three operands.  When they do
\* not unify (inputs or outputs of different length, or different ground
\* types in some position) the analysis ends with CannotExecSignature.
C8_BranchesMustAgree ==
    [][BranchesOnQuotations =>
        /\ (pc' = "analyze") = Unifiable(FirstBranch[1].sig, SecondBranch[1].sig)
        /\ pc' # "analyze" => (pc' = "error" /\ analysis'.fail = "CannotExecSignature")
        /\ pc' = "analyze" =>
            LET outs == After.signature.outputs
                n == Len(Current.signature.outputs)
            IN  /\ Len(outs) = n - 2
                /\ SubSeq(outs, 1, n - 3) = SubSeq(Current.signature.outputs, 1, n - 3)
                /\ Resolved(outs[n - 2], context')
                     = Resolved(Current.signature.outputs[n - 1], context')
                /\ Resolved(outs[n - 2], context')
                     = Resolved(Current.signature.outputs[n], context')]_vars

\* `true [ drop 1 ] [ + ] ?` is analysed: a -> Int and Int Int -> Int do not unify
C8_BranchesDisagree ==
    /\ source = Text(<<"true", "[", "drop", "1", "]", "[", "+", "]", "?">>)
    /\ pc = "error"
    /\ analysis.fail = "CannotExecSignature"
    /\ IsSymbol(analysis.word, <<"?">>)

-----------------------------------------------------------------------------

\* C9: error context.  Every CannotExecSignature error carries as stack the
\* outputs of the current scope just before the offending word was attempted,
\* and as sig that word's instantiated signature -- also when the mismatch is
\* found while `apply` matches the expanded input row of its quotation
\* (e.g. `"a" [ 1 + ] apply`).
C9_ErrorCarriesStackAndSignature ==
    [][(pc = "analyze" /\ pc' = "error" /\ analysis'.fail = "CannotExecSignature") =>
        /\ analysis'.word = peek
        /\ analysis'.stack = Current.signature.outputs
        /\ analysis'.sig = InstantiateSignature(word_bindings[peek.token.text], context).sig]_vars

-----------------------------------------------------------------------------

\* C10: resolution idempotence.  Every signature a successful analyze returns
\* -- the program's, and that of each Word and Quotation item at any depth --
\* is unchanged by resolving it again through the final Context.
C10_ResolvedIsResolved ==
    Analyzed =>
        /\ resolve_signature(analysis.signature, context, MaxDepth)
             = [ok |-> TRUE, sig |-> analysis.signature]
        /\ resolve_items(analysis.items, context, MaxDepth)
             = [ok |-> TRUE, items |-> analysis.items]

\* `dup swap +` is analysed: the variables of swap are bound to that of dup,
\* which `+` binds to Int, and the item of swap reads Int Int -> Int Int
C10_ChainOfBindingsResolved ==
    /\ Analyzed
    /\ source = Text(<<"dup", "swap", "+">>)
    /\ \E v \in DOMAIN context.var_context : context.var_context[v].tag = "Var"
    /\ analysis.items[2].sig = Signature(<<TypeInt, TypeInt>>, <<TypeInt, TypeInt>>)

-----------------------------------------------------------------------------
(* C11.  Slot sizes of the lowered stack words.                            *)

\* the number of stack cells a value of a resolved type takes
SlotSize(t) == IF t.tag = "String" THEN 2 ELSE 1

\* the operands of a word occurrence, from its resolved signature: inputs[1]
\* is the type unified with the element popped first, the one on top
TopOperand(item) == item.sig.inputs[1]
DeeperOperand(item) == item.sig.inputs[2]

RECURSIVE SizesAsResolved(_, _)
\* the instructions of the proc label are those of items, one each, and every
\* sized instruction has the sizes of its occurrence's operands
SizesAsResolved(items, label) ==
    LET code == procs[label.id + 1].code
    IN  /\ Len(code) = Len(items)
        /\ \A i \in 1..Len(items) :
             LET item == items[i]
                 ins == code[i].instruction
             IN  IF item.kind = "Quotation"
                 THEN ins.op = "PushQuote" /\ SizesAsResolved(item.items, ins.label)
                 ELSE IF item.kind # "Word" THEN TRUE
                 ELSE IF ins.op \in {"Dup", "Drop", "Branch"}
                 THEN ins.size = SlotSize(TopOperand(item))
                 ELSE IF ins.op \in {"Swap", "Over"}
                 THEN /\ ins.size_a = SlotSize(DeeperOperand(item))
                      /\ ins.size_b = SlotSize(TopOperand(item))
                 ELSE TRUE

\* C11: in every successfully lowered program each Dup, Drop, Swap, Over and
\* Branch instruction carries the slot sizes of the operand types resolved for
\* its occurrence; for Swap and Over size_a is the size of the deeper operand
\* and size_b the size of the operand on top.
C11_SizesAreThoseOfTheOperands ==
    Compiled => SizesAsResolved(analysis.items, Label(0))

-----------------------------------------------------------------------------
(* C12, C13.  The lexer.                                                   *)

\* Lexer::collect has ended, by returning the words or by a panic
LexerEnded == pc # "lex"
\* the lexer panicked: the process aborted before analyze created its State
LexerAborted == pc = "abort" /\ scopes = <<>>

\* the runs <<a, b>> of characters a..b of src that are delimited by
\* whitespace or the ends of src and consist of ASCII digits only
DigitRuns(src) ==
    {r \in (1..Len(src)) \X (1..Len(src)) :
        /\ r[1] <= r[2]
        /\ \A i \in r[1]..r[2] : src[i] \in Digits
        /\ r[1] = 1 \/ is_whitespace(src[r[1] - 1])
        /\ r[2] = Len(src) \/ is_whitespace(src[r[2] + 1])}

RECURSIVE Decimal(_, _)
\* the decimal value of the digits w after the digits already read as acc
Decimal(w, acc) ==
    IF w = <<>> THEN acc ELSE Decimal(Tail(w), 10 * acc + DigitValue(Head(w)))

\* words come in source order
InSourceOrder ==
    \A i, j \in 1..Len(words) : i < j => words[i].span.end <= words[j].span.start

\* C12: every maximal whitespace-free run of ASCII digits (of a source without
\* string literals) is lexed as one Integer token whose value is the decimal
\* value of the run, leading zeros ignored, and whose span goes from the byte
\* offset of its first digit to the byte offset past its last digit; tokens
\* are produced in source order.
C12_DigitRunsAreIntegers ==
    (LexerEnded /\ \A i \in 1..Len(source) : source[i] # "\"") =>
        /\ InSourceOrder
        /\ \A r \in DigitRuns(source) : \E i \in 1..Len(words) :
             /\ words[i].span = Span(Off(source, r[1] - 1), Off(source, r[2]))
             /\ words[i].token.kind = "Integer"
             /\ words[i].token.int = Decimal(SubSeq(source, r[1], r[2]), 0)

\* the character index of the quote that closes the literal opened by the
\* quote at index open, or 0: the first quote after it that an even number of
\* backslashes precedes
ClosingQuote(src, open) ==
    LET closes(q) == /\ src[q] = "\""
                     /\ TrailingBackslashes(SubSeq(src, open + 1, q - 1)) % 2 = 0
    IN  IF \E q \in (open + 1)..Len(src) : closes(q)
        THEN CHOOSE q \in (open + 1)..Len(src) :
                 closes(q) /\ \A q2 \in (open + 1)..(q - 1) : ~closes(q2)
        ELSE 0

\* the span of w is a byte range of the source that holds the token's text
SpanHoldsToken(w) ==
    /\ w.span.start < w.span.end
    /\ w.span.end <= ByteLength(source)
    /\ LET text == ByteSlice(source, w.span.start, w.span.end)
           open == 1 + CHOOSE p \in 0..Len(source) : Off(source, p) = w.span.start
       IN  /\ text.ok
           /\ text.text # <<>>
           /\ \A i \in 1..Len(text.text) : ~is_whitespace(text.text[i]) \/ w.token.kind = "String"
           /\ CASE w.token.kind = "Integer" ->
                     /\ \A i \in 1..Len(text.text) : text.text[i] \in Digits
                     /\ w.token.int = Decimal(text.text, 0)
                [] w.token.kind = "Symbol" -> w.token.text = text.text
                [] w.token.kind = "String" ->
                     /\ w.token.text = text.text
                     /\ source[open] = "\""
                     /\ ClosingQuote(source, open) # 0 =>
                            w.span.end = Off(source, ClosingQuote(source, open))

\* C13: lexer totality.  On any text the lexer yields its words without
\* aborting, and the span of every word is a byte range start < end <= length
\* of the source that is exactly the token's text; for a string literal, from
\* its opening quote through its closing quote, an escaped quote not ending it.
C13_LexerIsTotal ==
    /\ ~LexerAborted
    /\ \A i \in 1..Len(words) : SpanHoldsToken(words[i])

-----------------------------------------------------------------------------
(* C14, C15.  The Context.                                                 *)

\* a recursion of the analyzer has used up the thread's stack
StackExhausted == pc = "abort" /\ panic = Overflow.fail

\* C14: resolution terminates.  On the Context of any analysis resolve_type
\* and resolve_all end after finitely many substitution steps: a program whose
\* unification would create a cyclic binding is rejected with an error before
\* anything is resolved through that binding.
C14_ResolutionTerminates ==
    ~StackExhausted

\* C15: invariant I2.  Once a Var id or a MultiVar id has a binding in the
\* Context, no later unification step replaces it: set_var and set_multivar
\* are only ever executed for an id that has no binding.
C15_NoBindingIsReplaced ==
    context.rebound = {}

\* two applications have bound their four row variables, and the Int of the
\* first has met the bound output row of the second
C15_TwoApplicationsAnalysed ==
    /\ Analyzed
    /\ source = Text(<<"[", "1", "]", "apply", "[", "2", "]", "apply", "+">>)
    /\ DOMAIN context.multivar_context = 0..3
    /\ analysis.signature = Signature(<<>>, <<TypeInt>>)

-----------------------------------------------------------------------------
(* C16.  Escape processing.                                                *)

\* the text the compiler hands to escape for the String token raw
Escaped(raw) == StringBody(raw).text

\* C16: escape processing.  A backslash escapes exactly the one character
\* after it (n gives a newline, a backslash a backslash, a quote a quote, any
\* other escaped character is dropped) and every character outside an escape
\* pair is copied unchanged: each pool entry is the text given to escape with
\* its escape pairs replaced.
C16_EscapePairsOnly ==
    Compiled =>
        \A p \in 1..Len(procs) : \A i \in 1..Len(procs[p].code) :
            LET code == procs[p].code[i]
                raw == ByteSlice(source, code.span.start, code.span.end).text
            IN  code.instruction.op = "PushString" =>
                    string_literals[code.instruction.index + 1] = Unescaped(Escaped(raw))

-----------------------------------------------------------------------------
(* C17 - C20.  The code emitted for Dup, Over, Branch and Swap.            *)

\* the code of an instruction op is about to run
Runs(op) ==
    /\ pc = "run"
    /\ machine.ip <= Len(asm[machine.proc + 1])
    /\ CurrentCode.instruction.op = op

\* the instruction about to run
Instr == CurrentCode.instruction

\* the number of cells between data_stack and rcx
Depth(m) == m.rcx.off \div 8

\* rcx points into the data stack, above at least n cells
Holds(n) == machine.rcx.seg = "data" /\ n <= Depth(machine) /\ Depth(machine) < StackCells

\* the contents of cell c of the data stack (.bss starts as zeros)
Cell(m, c) == IF c \in DOMAIN m.mem THEN m.mem[c] ELSE IntV(0)

\* the code ran to its end and moved rcx by k cells
MovesRcx(k) ==
    /\ machine'.status = "running"
    /\ machine'.rcx = [seg |-> "data", off |-> machine.rcx.off + 8 * k]

\* the n cells from cell to on hold what the n cells from cell from on held
CopiedCells(from, to, n) ==
    \A k \in 0..(n - 1) : Cell(machine', to + k) = Cell(machine, from + k)

\* the cells below cell c are as they were
KeptBelow(c) == \A k \in 0..(c - 1) : Cell(machine', k) = Cell(machine, k)

\* C17: after the code of Dup{size} the size cells from the old rcx on are a
\* copy, in the same order, of the size cells that were on top of the stack,
\* every cell that was on the stack is unchanged, and rcx is size cells higher.
C17_DupCopiesTheTop ==
    [][(Runs("Dup") /\ Holds(Instr.size)) =>
          /\ MovesRcx(Instr.size)
          /\ CopiedCells(Depth(machine) - Instr.size, Depth(machine), Instr.size)
          /\ KeptBelow(Depth(machine))]_vars

\* C18: after the code of Over{size_a, size_b} the cells from the old rcx on
\* are a copy, in order, of the size_a cells that started size_a + size_b
\* cells below rcx, every cell that was on the stack is unchanged, and rcx is
\* size_a cells higher.
C18_OverCopiesTheDeeperOperand ==
    [][(Runs("Over") /\ Holds(Instr.size_a + Instr.size_b)) =>
          /\ MovesRcx(Instr.size_a)
          /\ CopiedCells(Depth(machine) - Instr.size_a - Instr.size_b, Depth(machine),
                         Instr.size_a)
          /\ KeptBelow(Depth(machine))]_vars

\* the cell of the condition of the Branch about to run, and its two operands
CondCell == Depth(machine) - 2 * Instr.size - 1
OnTrueCell == Depth(machine) - 2 * Instr.size
OnFalseCell == Depth(machine) - Instr.size

\* C19: after the code of Branch{size} with a condition of all ones or zero,
\* the size cells on top of the stack are, cell for cell and in order, those
\* of on_true when the condition is all ones and those of on_false when it is
\* zero; rcx is size + 1 cells lower and no cell below the three operands has
\* changed.
C19_BranchSelects ==
    [][(/\ Runs("Branch")
        /\ Holds(2 * Instr.size + 1)
        /\ Cell(machine, CondCell) \in {IntV(-1), IntV(0)}) =>
          /\ MovesRcx(-(Instr.size + 1))
          /\ CopiedCells(IF Cell(machine, CondCell) = IntV(-1) THEN OnTrueCell
                         ELSE OnFalseCell,
                         CondCell, Instr.size)
          /\ KeptBelow(CondCell)]_vars

\* C20: after the code of Swap{size_a, size_b} the size_a cells that were on
\* top lie directly beneath the size_b cells that were below them, each
\* value's cells in their order; rcx is unchanged and no cell below the two
\* operands is modified.
C20_SwapExchangesTheOperands ==
    [][(Runs("Swap") /\ Holds(Instr.size_a + Instr.size_b)) =>
          /\ MovesRcx(0)
          /\ CopiedCells(Depth(machine) - Instr.size_a,
                         Depth(machine) - Instr.size_a - Instr.size_b, Instr.size_a)
          /\ CopiedCells(Depth(machine) - Instr.size_a - Instr.size_b,
                         Depth(machine) - Instr.size_b, Instr.size_b)
          /\ KeptBelow(Depth(machine) - Instr.size_a - Instr.size_b)]_vars

\* `1 "a" 2 swap` has run: the Int 2 lies beneath the two cells of the string,
\* above the Int 1
C20_IntSwappedUnderString ==
    /\ pc = "returned"
    /\ source = Text(<<"1", "a", "2", "swap">>)
    /\ procs[1].code[4].instruction = Sized2("Swap", 1, 2)
    /\ machine.rcx = [seg |-> "data", off |-> 32]
    /\ Cell(machine, 0) = IntV(1)
    /\ Cell(machine, 1) = IntV(2)
    /\ Cell(machine, 2) = StrV(0)
    /\ Cell(machine, 3) = IntV(ByteLength(string_literals[1]))

-----------------------------------------------------------------------------

RECURSIVE QuotationsWithin(_)
\* the item lists of the quotations of an item list, at all depths, in the
\* order of a depth-first walk: each quotation before the quotations inside
\* it, and those before the quotations that follow it
QuotationsWithin(items) ==
    IF items = <<>> THEN <<>>
    ELSE (IF Head(items).kind = "Quotation"
          THEN <<Head(items).items>> \o QuotationsWithin(Head(items).items)
          ELSE <<>>) \o QuotationsWithin(Tail(items))

\* the item lists in the order of that walk, the top-level list first
DepthFirst(items) == <<items>> \o QuotationsWithin(items)

\* the instruction that lowers item j of the item list numbered b (from 0) in
\* that walk: a quotation is pushed by the number after b and after those of
\* the quotations in and inside the items before it
Lowering(its, j, b) ==
    IF its[j].kind = "Quotation"
        THEN PushQuote(Label(b + 1 + Len(QuotationsWithin(SubSeq(its, 1, j - 1)))))
    ELSE IF its[j].kind = "Integer" THEN PushInt(its[j].int)
    ELSE IF its[j].kind = "String" THEN Plain("PushString")
    ELSE WordInstruction(its[j]).instruction

\* the code is the lowering of the item list numbered b, item for item
LowersTo(code, its, b) ==
    /\ Len(code) = Len(its)
    /\ \A j \in 1..Len(its) :
        /\ code[j].span = its[j].span
        /\ IF its[j].kind = "String"
               THEN /\ code[j].instruction.op = "PushString"
                    /\ code[j].instruction.index < Len(string_literals)
               ELSE code[j].instruction = Lowering(its, j, b)

\* C21: after lowering an item tree the procedures are numbered 0, 1, ... in
\* their order, there is one for the top-level code and one for every
\* quotation item at any depth, in the order of a depth-first walk, procedure 0
\* holds the lowering of the top-level items, and every PushQuote names the
\* procedure that holds the lowering of the items of its quotation.
C21_ProcsFollowTheDepthFirstWalk ==
    Compiled =>
        /\ Len(procs) = 1 + Len(QuotationsWithin(analysis.items))
        /\ \A i \in 1..Len(procs) : procs[i].label.id = i - 1
        /\ \A i \in 1..Len(procs) :
             LowersTo(procs[i].code, DepthFirst(analysis.items)[i], i - 1)

\* `[ [ ] ] [ ]` is lowered: the quotation inside the first of two
\* quotations takes the number between theirs
C21_NestedBesideLowered ==
    /\ Compiled
    /\ source = Text(<<"[", "[", "]", "]", "[", "]">>)
    /\ Len(procs) = 4
    /\ procs[1].code[1].instruction = PushQuote(Label(1))
    /\ procs[1].code[2].instruction = PushQuote(Label(3))
    /\ procs[2].code[1].instruction = PushQuote(Label(2))
    /\ procs[3].code = <<>>

-----------------------------------------------------------------------------

\* check_word is at work on the words of a quotation literal
InQuotation == pc = "analyze" /\ Len(scopes) > 1

\* the State of the scope that encloses the innermost quotation, before and
\* after the step
Enclosing == scopes[Len(scopes) - 1].state
EnclosingAfter == scopes'[Len(scopes) - 1].state

\* the step is the `[` arm returning: the innermost quotation is complete
QuotationCloses == Len(scopes') = Len(scopes) - 1

\* every binding of the Context is the same after the step
BindingsKept ==
    /\ \A v \in DOMAIN context.var_context :
         v \in DOMAIN context'.var_context
            /\ context'.var_context[v] = context.var_context[v]
    /\ \A v \in DOMAIN context.multivar_context :
         v \in DOMAIN context'.multivar_context
            /\ context'.multivar_context[v] = context.multivar_context[v]

\* the types of the signature sig as resolve_type sees them under ctx
ResolvedUnder(sig, ctx) == resolve_signature(sig, ctx, MaxDepth)

\* C22: a step of the analysis on a word inside `[ ... ]` changes no State but
\* the quotation's own and no binding the Context had; the step that completes
\* the quotation leaves the inputs of the enclosing State and its earlier
\* outputs and items as they were, stored and as resolved, and adds one
\* Quotation type to its outputs and one Quotation item to its items.
C22_QuotationLeavesEnclosingScope ==
    [][InQuotation =>
          /\ BindingsKept
          /\ \A i \in 1..(Len(scopes) - 2) : scopes'[i] = scopes[i]
          /\ ResolvedUnder(Enclosing.signature, context') = ResolvedUnder(Enclosing.signature, context)
          /\ IF QuotationCloses
             THEN /\ EnclosingAfter.signature.inputs = Enclosing.signature.inputs
                  /\ Len(EnclosingAfter.signature.outputs)
                        = Len(Enclosing.signature.outputs) + 1
                  /\ Front(EnclosingAfter.signature.outputs) = Enclosing.signature.outputs
                  /\ Last(EnclosingAfter.signature.outputs).tag = "Quotation"
                  /\ Len(EnclosingAfter.items) = Len(Enclosing.items) + 1
                  /\ Front(EnclosingAfter.items) = Enclosing.items
                  /\ Last(EnclosingAfter.items).kind = "Quotation"
                  /\ Last(EnclosingAfter.items).sig = Last(EnclosingAfter.signature.outputs).sig
                  /\ scopes'[Len(scopes) - 1].word = scopes[Len(scopes) - 1].word
             ELSE scopes'[Len(scopes) - 1] = scopes[Len(scopes) - 1]]_vars

\* `1 [ + ]` is analysed: Int lies beneath a quotation of type Int Int -> Int
\* and nothing is demanded of the caller
C22_PlusQuotedAboveInt ==
    /\ source = Text(<<"1", "[", "+", "]">>)
    /\ Analyzed
    /\ analysis.signature =
         Signature(<<>>, <<TypeInt,
                           TypeQuotation(Signature(<<TypeInt, TypeInt>>, <<TypeInt>>))>>)

-----------------------------------------------------------------------------
(* Analyzer::analyze as a function of the word list, written as the        *)
(* recursion of check_word that the source has.                            *)

RECURSIVE CheckWord(_, _, _)
RECURSIVE CheckWordLoop(_, _, _, _)

\* `while words.peek() ... { check_word(state, context)? }`: the loop of
\* analyze, and with quoted the loop of the `[` arm, which stops before a `]`
CheckWordLoop(ws, state, ctx, quoted) ==
    IF ws = <<>> \/ (quoted /\ IsCloseBracket(Head(ws)))
    THEN [ok |-> TRUE, rest |-> ws, state |-> state, context |-> ctx]
    ELSE Then(CheckWord(ws, state, ctx), LAMBDA r :
         CheckWordLoop(r.rest, r.state, r.context, quoted))

\* Analyzer::check_word on the first of the words ws: the words left, the
\* State and the Context
CheckWord(ws, state, ctx) ==
    Let(Head(ws), LAMBDA word :
    IF word.token.kind = "Integer" THEN
        [ok |-> TRUE, rest |-> Tail(ws), context |-> ctx,
         state |-> [push_output(state, TypeInt) EXCEPT
                      !.items = Append(@, ItemInteger(word.token.int, word.span))]]
    ELSE IF word.token.kind = "String" THEN
        [ok |-> TRUE, rest |-> Tail(ws), context |-> ctx,
         state |-> [push_output(state, TypeString) EXCEPT
                      !.items = Append(@, ItemString(word.token.text, word.span))]]
    ELSE IF word.token.text = <<"[">> THEN
        Then(CheckWordLoop(Tail(ws), NewState, ctx, TRUE), LAMBDA q :
        Then(resolve_all(q.state, q.context), LAMBDA r :
        [ok |-> TRUE, rest |-> IF q.rest = <<>> THEN <<>> ELSE Tail(q.rest),
         context |-> q.context,
         state |-> [push_output(state, TypeQuotation(r.signature)) EXCEPT
                      !.items = Append(@, ItemQuotation(r.signature, r.items, word.span))]]))
    ELSE IF word.token.text \notin DOMAIN word_bindings THEN
        [ok |-> FALSE, fail |-> "UndefinedWord", word |-> word]
    ELSE
        Then(try_signature(word, state, word_bindings[word.token.text], ctx, TRUE, MaxDepth),
             LAMBDA r :
        [ok |-> TRUE, rest |-> Tail(ws), context |-> r.context,
         state |-> [r.state EXCEPT
                      !.items = Append(@, ItemWord(r.sig, word.token.text, word.span))]]))

\* Analyzer::analyze
Analyze(ws) ==
    Then(CheckWordLoop(ws, NewState, NewContext, FALSE), LAMBDA r :
    resolve_all(r.state, r.context))

\* what an analysis came to: its signature up to renaming of variables, or
\* that it gave none
Outcome(r) == IF r.ok THEN <<"Ok", Canonical(r.signature)>> ELSE <<"Err">>

\* analyze has returned or panicked on the whole word list
AnalysisEnded == pc \notin {"lex", "analyze"} /\ ~LexerAborted

\* the analysis the steps of the pipeline made is the one Analyze computes
AnalyzeAgrees ==
    AnalysisEnded =>
        /\ Analyzed <=> Analyze(words).ok
        /\ Analyzed => /\ analysis.signature = Analyze(words).signature
                       /\ analysis.items = Analyze(words).items

RECURSIVE Balanced(_, _)
\* the brackets of the words ws match one another, from depth open
Balanced(ws, open) ==
    IF ws = <<>> THEN open = 0
    ELSE IF IsSymbol(Head(ws), <<"[">>) THEN Balanced(Tail(ws), open + 1)
    ELSE IF IsSymbol(Head(ws), <<"]">>) THEN open > 0 /\ Balanced(Tail(ws), open - 1)
    ELSE Balanced(Tail(ws), open)

\* the positions k of a `[` such that the words are X [ P ] apply with X the
\* words before k and P bracket-balanced
Applied ==
    {k \in 1..(Len(words) - 2) :
        /\ IsSymbol(words[Len(words)], <<"a", "p", "p", "l", "y">>)
        /\ IsSymbol(words[Len(words) - 1], <<"]">>)
        /\ IsSymbol(words[k], <<"[">>)
        /\ Balanced(SubSeq(words, k + 1, Len(words) - 2), 0)}

\* X P for the X [ P ] apply with its `[` at k
Inlined(k) == SubSeq(words, 1, k - 1) \o SubSeq(words, k + 1, Len(words) - 2)

\* C23: the analysis of a program X [ P ] apply with P bracket-balanced comes
\* to what the analysis of X P comes to: the same signature up to renaming of
\* variables, or no signature for either.
C23_ApplyIsInlining ==
    AnalysisEnded =>
        \A k \in Applied : Outcome(analysis) = Outcome(Analyze(Inlined(k)))

=============================================================================
